---- MODULE Spec2Model ----
(***************************************************************************)
(* Model of the trade simulation engine of strategy-builder                *)
(* (src/src/backtesting_framework.py, class BacktestEngine).               *)
(*                                                                         *)
(* Prices, quantities, pnl and equity are Python floats in the source.     *)
(* The model computes them as exact rationals <<numerator, denominator>>   *)
(* in lowest terms with a positive denominator, so that two values are     *)
(* equal exactly when their tuples are equal.                              *)
(***************************************************************************)
EXTENDS Integers, Sequences, FiniteSets, TLC

\* ------------------------------------------------------------ bounds
\* Largest number of rows of the frame handed to run (len(df)).
MaxBars == 4

\* The largest number of combinations of a parameter grid.
MaxJobs == 4

\* The largest number of pool processes (n_jobs).
MaxWorkers == 2

\* The largest number of fallback providers handed to fetch_data.
MaxFallbacks == 2

\* The largest number of entries of pattern_configs.
MaxPatterns == 2

\* The largest number of filter configs of a job.
MaxFilters == 2

\* The largest number of entries of a param_spec.
MaxSpecs == 2

\* The number of iterations for which the loop of a float parameter is followed.
MaxValues == 3

\* ------------------------------------------------------ float arithmetic
Abs(n) == IF n < 0 THEN -n ELSE n

RECURSIVE GCD(_, _)
GCD(a, b) == IF b = 0 THEN a ELSE GCD(b, a % b)

LCM(a, b) == (a \div GCD(a, b)) * b

\* n/d in lowest terms (d > 0).
Norm(n, d) == LET g == GCD(Abs(n), d) IN <<n \div g, d \div g>>

R(n) == <<n, 1>>
Zero == R(0)

RAdd(x, y) ==
    LET l == LCM(x[2], y[2])
    IN  Norm(x[1] * (l \div x[2]) + y[1] * (l \div y[2]), l)

RNeg(x) == <<-x[1], x[2]>>

RSub(x, y) == RAdd(x, RNeg(y))

RMul(x, y) ==
    LET g1 == GCD(Abs(x[1]), y[2])
        g2 == GCD(Abs(y[1]), x[2])
    IN  Norm((x[1] \div g1) * (y[1] \div g2), (x[2] \div g2) * (y[2] \div g1))

\* x / y for y # 0.
RDiv(x, y) ==
    IF y[1] > 0 THEN RMul(x, <<y[2], y[1]>>)
                ELSE RMul(x, <<-y[2], -y[1]>>)

RLt(x, y) ==
    LET l == LCM(x[2], y[2])
    IN  x[1] * (l \div x[2]) < y[1] * (l \div y[2])

RLe(x, y) == ~RLt(y, x)

RAbs(x) == <<Abs(x[1]), x[2]>>

\* Python's max(x, y): the first argument unless the second is greater.
RMax(x, y) == IF RLt(x, y) THEN y ELSE x

\* ------------------------------------------------------------ inputs
\* Price levels of the bars, in ticks. With one tick of slippage a position
\* opened on a one-level bar at the middle level has its stop and its target
\* on the two outer levels.
Prices == {4, 8, 12}

\* A row of the frame: df.iloc[i] with the columns the engine reads.
Bars ==
    { [high |-> R(h), low |-> R(l), close |-> R(c),
       signal_long |-> sl, signal_short |-> ss] :
        h \in Prices, l \in Prices, c \in Prices, sl \in BOOLEAN, ss \in BOOLEAN }

\* The rows the frame is drawn from: low <= close <= high, the bar either on
\* one level (high = low) or spanning all of them.
ValidBars ==
    { b \in Bars : /\ RLe(b.low, b.close) /\ RLe(b.close, b.high)
                   /\ \/ b.high = b.low
                      \/ \A p \in Prices : RLe(b.low, R(p)) /\ RLe(R(p), b.high) }

\* The row read when the frame is empty (never inspected).
NoRow ==
    [high |-> Zero, low |-> Zero, close |-> Zero,
     signal_long |-> FALSE, signal_short |-> FALSE]

\* BacktestConfig: the dataclass defaults, with the account scaled down to the
\* price levels above. In fixed mode every order is fixed_qty; in the risk
\* based mode the small account makes the 0.01 floor bind on the wider bars
\* (risk_money 0.05 over a risk_distance of 6 or 10) and not on the narrow
\* ones (risk_distance 2).
Defaults ==
    [commission_per_trade |-> <<3, 2>>, slippage_pips |-> R(1),
     risk_per_trade_pct |-> R(1), fixed_qty |-> R(1)]

BacktestConfig ==
    { [initial_capital |-> R(100), commission_per_trade |-> Defaults.commission_per_trade,
       slippage_pips |-> Defaults.slippage_pips,
       risk_per_trade_pct |-> Defaults.risk_per_trade_pct,
       position_sizing |-> "fixed", fixed_qty |-> Defaults.fixed_qty],
      [initial_capital |-> R(5), commission_per_trade |-> Defaults.commission_per_trade,
       slippage_pips |-> Defaults.slippage_pips,
       risk_per_trade_pct |-> Defaults.risk_per_trade_pct,
       position_sizing |-> "risk_pct", fixed_qty |-> Defaults.fixed_qty] }

\* ------------------------------------------------------------- state
VARIABLES
    config,        \* self.config
    n,             \* len(df)
    i,             \* index of the last row the loop has processed (0 before the loop)
    row,           \* df.iloc[i]
    positions,     \* positions[k], k \in 0..n-1
    entry_prices,
    stop_losses,
    take_profits,
    equity,
    trades_list,
    metrics,       \* the metrics of the BacktestResult, once run has returned
    pc             \* "loop" while run is in its main loop, "done" once it has returned

\* The state of StrategyOptimizer.optimize (src/src/optimizer.py).
VARIABLES
    pattern_name,      \* the entry pattern optimize is called with
    parameter_ranges,  \* the dict {param_name: [val1, ...]}, in insertion order
    filter_configs,    \* the list of filter configurations
    n_jobs,            \* self.n_jobs
    run_outcome,       \* per parameter dict: what pattern, filters and engine.run give
    jobs,              \* the list of jobs
    job_state,         \* per job: "pending", "running" or "returned"
    results,           \* the list of worker results, one slot per job
    output,            \* the list optimize returns
    opt_pc,            \* "idle", "map" (workers running), "returned" or "raised"
    frames             \* the DataFrame objects: per object, its columns and its writers

engine_vars == <<config, n, i, row, positions, entry_prices, stop_losses,
                 take_profits, equity, trades_list, metrics, pc>>

optimizer_vars == <<pattern_name, parameter_ranges, filter_configs, n_jobs,
                    run_outcome, jobs, job_state, results, output, opt_pc, frames>>

\* The state of StrategyOptimizer.optimize_multi_pattern.
VARIABLES
    pattern_configs,   \* the list of (pattern_name, parameter_ranges) tuples
    m_idx,             \* the number of pattern_configs entries processed
    pattern_results,   \* per processed entry, the list its optimize call returned
    all_results,       \* all_results
    multi_pc           \* "idle", "loop" or "returned"

multi_vars == <<pattern_configs, m_idx, pattern_results, all_results, multi_pc>>

\* The state of generate_parameter_grid.
VARIABLES
    param_spec,        \* the dict of parameter specifications, in insertion order
    g_idx,             \* the number of param_spec entries processed
    param_grid,        \* param_grid, in insertion order
    values,            \* the list built by the loop of a float parameter
    current,           \* current of that loop
    grid_pc            \* "idle", "for", "while", "returned" or "raised"

grid_vars == <<param_spec, g_idx, param_grid, values, current, grid_pc>>

\* The state of DataManager.fetch_data (src/src/data_providers/data_manager.py).
VARIABLES
    default_provider,     \* self.default_provider
    provider,             \* the argument provider (None: use the default)
    fallback_providers,   \* the argument fallback_providers
    fetch_succeeds,       \* per provider name: does its fetch_data succeed
    _provider_instances,  \* the names with a cached provider instance
    tried,                \* the provider names tried so far, in order
    last_error,           \* last_error
    fetched,              \* the provider whose data fetch_data returned
    fetch_pc              \* "idle", "for", "returned" or "raised"

dm_vars == <<default_provider, provider, fallback_providers, fetch_succeeds,
             _provider_instances, tried, last_error, fetched, fetch_pc>>

\* The frame of one worker between the pattern function and engine.run
\* (src/src/optimizer.py, _run_single_backtest_worker).
VARIABLES
    pattern_signals,      \* the signal columns the pattern function computes
    job_filters,          \* per filter config: its name and the filter_ok column its function computes
    df_signals,           \* df_signals: its signal columns and its filter_ok column, if any
    f_idx,                \* the number of filter configs gone through
    signals_pc            \* "idle", "filters" or "run"

signal_vars == <<pattern_signals, job_filters, df_signals, f_idx, signals_pc>>

other_vars == <<multi_vars, grid_vars, dm_vars, signal_vars>>

vars == <<config, n, i, row, positions, entry_prices, stop_losses, take_profits,
          equity, trades_list, metrics, pc,
          pattern_name, parameter_ranges, filter_configs, n_jobs,
          run_outcome, jobs, job_state, results, output, opt_pc, frames,
          pattern_configs, m_idx, pattern_results, all_results, multi_pc,
          param_spec, g_idx, param_grid, values, current, grid_pc,
          default_provider, provider, fallback_providers, fetch_succeeds,
          _provider_instances, tried, last_error, fetched, fetch_pc,
          pattern_signals, job_filters, df_signals, f_idx, signals_pc>>

\* optimize_multi_pattern is not called.
NoMulti ==
    /\ pattern_configs = <<>>
    /\ m_idx = 0
    /\ pattern_results = <<>>
    /\ all_results = <<>>
    /\ multi_pc = "idle"

\* generate_parameter_grid is not called.
NoGrid ==
    /\ param_spec = <<>>
    /\ g_idx = 0
    /\ param_grid = <<>>
    /\ values = <<>>
    /\ current = <<0, 1>>
    /\ grid_pc = "idle"

\* No DataManager is in use.
NoFetch ==
    /\ default_provider = "mock"
    /\ provider = "None"
    /\ fallback_providers = <<>>
    /\ fetch_succeeds = <<>>
    /\ _provider_instances = {}
    /\ tried = <<>>
    /\ last_error = "None"
    /\ fetched = "None"
    /\ fetch_pc = "idle"

\* No worker is between its pattern function and engine.run.
NoSignals ==
    /\ pattern_signals = <<>>
    /\ job_filters = <<>>
    /\ df_signals = <<>>
    /\ f_idx = 0
    /\ signals_pc = "idle"

NoOther == NoMulti /\ NoGrid /\ NoFetch /\ NoSignals

\* The columns of the caller's bar table.
BaseColumns == {"open", "high", "low", "close", "volume"}

\* A DataFrame object is named <<j, s>>: <<0, 0>> is the caller's df, <<j, 0>>
\* the copy made for job j and <<j, s>>, s >= 1, the s-th copy made while job j
\* runs.
CallerFrame == <<0, 0>>

\* Only the caller's df exists, as the caller made it.
CallerFrames == [f \in {CallerFrame} |-> [columns |-> BaseColumns, written_by |-> {}]]

\* No optimize call is in progress: the engine is run on its own.
NoOptimize ==
    /\ frames = CallerFrames
    /\ pattern_name = "sacudida"
    /\ parameter_ranges = <<>>
    /\ filter_configs = <<>>
    /\ n_jobs = 1
    /\ run_outcome = <<>>
    /\ jobs = <<>>
    /\ job_state = <<>>
    /\ results = <<>>
    /\ output = <<>>
    /\ opt_pc = "idle"

\* ------------------------------------------------- BacktestEngine helpers
\* _check_exit with the target tested before the stop.
_check_exit_target_first(r, position, entry, sl, tp) ==
    IF RLt(Zero, position) THEN
        IF RLe(tp, r.high) /\ RLt(Zero, tp) THEN [exit |-> TRUE, reason |-> "take_profit"]
        ELSE IF RLe(r.low, sl)
             THEN [exit |-> TRUE, reason |-> "stop_loss"]
             ELSE [exit |-> FALSE, reason |-> ""]
    ELSE IF RLt(position, Zero) THEN
        IF RLe(r.low, tp) /\ RLt(Zero, tp) THEN [exit |-> TRUE, reason |-> "take_profit"]
        ELSE IF RLe(sl, r.high)
             THEN [exit |-> TRUE, reason |-> "stop_loss"]
             ELSE [exit |-> FALSE, reason |-> ""]
    ELSE [exit |-> FALSE, reason |-> ""]

_check_exit(r, position, entry, sl, tp) ==
    IF RLt(Zero, position) THEN
        IF RLe(r.low, sl) THEN [exit |-> TRUE, reason |-> "stop_loss"]
        ELSE IF RLe(tp, r.high) /\ RLt(Zero, tp)
             THEN [exit |-> TRUE, reason |-> "take_profit"]
             ELSE [exit |-> FALSE, reason |-> ""]
    ELSE IF RLt(position, Zero) THEN
        IF RLe(sl, r.high) THEN [exit |-> TRUE, reason |-> "stop_loss"]
        ELSE IF RLe(r.low, tp) /\ RLt(Zero, tp)
             THEN [exit |-> TRUE, reason |-> "take_profit"]
             ELSE [exit |-> FALSE, reason |-> ""]
    ELSE [exit |-> FALSE, reason |-> ""]

\* risk_distance is never 0 here: high >= low and slippage_pips > 0.
_calculate_position_size(cfg, entry, sl, eq) ==
    IF cfg.position_sizing = "fixed" THEN cfg.fixed_qty
    ELSE LET risk_distance == RAbs(RSub(entry, sl))
             risk_money == RMul(eq, RDiv(cfg.risk_per_trade_pct, R(100)))
             qty == RDiv(risk_money, risk_distance)
         IN  RMax(qty, <<1, 100>>)

\* _enter_long with the entry at the bar's high, the slippage left out.
_enter_long_no_slippage(cfg, r, current_equity) ==
    LET entry_price == r.high
        sl == RSub(r.low, cfg.slippage_pips)
        risk == RSub(entry_price, sl)
        tp == RAdd(entry_price, RMul(risk, <<3, 2>>))
        qty == _calculate_position_size(cfg, entry_price, sl, current_equity)
    IN  [qty |-> qty, entry_price |-> entry_price, sl |-> sl, tp |-> tp]

_enter_long(cfg, r, current_equity) ==
    LET entry_price == RAdd(r.high, cfg.slippage_pips)
        sl == RSub(r.low, cfg.slippage_pips)
        risk == RSub(entry_price, sl)
        tp == RAdd(entry_price, RMul(risk, <<3, 2>>))
        qty == _calculate_position_size(cfg, entry_price, sl, current_equity)
    IN  [qty |-> qty, entry_price |-> entry_price, sl |-> sl, tp |-> tp]

\* _enter_short returning the quantity unsigned.
_enter_short_unsigned(cfg, r, current_equity) ==
    LET entry_price == RSub(r.low, cfg.slippage_pips)
        sl == RAdd(r.high, cfg.slippage_pips)
        risk == RSub(sl, entry_price)
        tp == RSub(entry_price, RMul(risk, <<3, 2>>))
        qty == _calculate_position_size(cfg, entry_price, sl, current_equity)
    IN  [qty |-> qty, entry_price |-> entry_price, sl |-> sl, tp |-> tp]

_enter_short(cfg, r, current_equity) ==
    LET entry_price == RSub(r.low, cfg.slippage_pips)
        sl == RAdd(r.high, cfg.slippage_pips)
        risk == RSub(sl, entry_price)
        tp == RSub(entry_price, RMul(risk, <<3, 2>>))
        qty == _calculate_position_size(cfg, entry_price, sl, current_equity)
    IN  [qty |-> RNeg(qty), entry_price |-> entry_price, sl |-> sl, tp |-> tp]

\* _calculate_pnl charging the commission once.
_calculate_pnl_one_commission(entry, exit, qty, commission) ==
    LET gross_pnl == RMul(RSub(exit, entry), qty)
    IN  RSub(gross_pnl, commission)

_calculate_pnl(entry, exit, qty, commission) ==
    LET gross_pnl == RMul(RSub(exit, entry), qty)
    IN  RSub(gross_pnl, RMul(R(2), commission))

\* ------------------------------------------------------------ metrics
RECURSIVE SumPnl(_)
SumPnl(ts) == IF ts = <<>> THEN Zero ELSE RAdd(Head(ts).pnl, SumPnl(Tail(ts)))

IsWin(t) == RLt(Zero, t.pnl)
IsLoss(t) == RLt(t.pnl, Zero)

\* Series.mean() of the pnl column of a non-empty frame.
MeanPnl(ts) == RDiv(SumPnl(ts), R(Len(ts)))

\* equity_series.expanding().max() at index k.
RECURSIVE running_max(_, _)
running_max(eq, k) ==
    IF k = 0 THEN eq[0] ELSE RMax(running_max(eq, k - 1), eq[k])

drawdown(eq, k) ==
    RMul(RDiv(RSub(eq[k], running_max(eq, k)), running_max(eq, k)), R(100))

RECURSIVE MinDrawdown(_, _)
MinDrawdown(eq, k) ==
    IF k = 0 THEN drawdown(eq, 0)
    ELSE LET m == MinDrawdown(eq, k - 1)
             d == drawdown(eq, k)
         IN  IF RLt(d, m) THEN d ELSE m

\* _calculate_max_drawdown reading the drawdown of the last bar instead of the
\* deepest one.
_calculate_max_drawdown_last(eq, len) == drawdown(eq, len - 1)

_calculate_max_drawdown(eq, len) == MinDrawdown(eq, len - 1)

\* returns = pd.Series(equity).pct_change().dropna(): the bar-over-bar changes,
\* a 0/0 change (NaN) dropped.
ReturnIdx(eq, len) == { k \in 1..(len - 1) : ~(eq[k-1] = Zero /\ eq[k] = Zero) }

pct_change(eq, k) == RDiv(RSub(eq[k], eq[k-1]), eq[k-1])

RECURSIVE SumReturns(_, _)
SumReturns(eq, K) ==
    IF K = {} THEN Zero
    ELSE LET k == CHOOSE x \in K : TRUE
         IN  RAdd(pct_change(eq, k), SumReturns(eq, K \ {k}))

Sign(x) == IF x[1] > 0 THEN R(1) ELSE IF x[1] < 0 THEN R(-1) ELSE Zero

\* sharpe_ratio = mean / std * sqrt(252) if std > 0 else 0. The ratio is
\* irrational in general: the model keeps its sign. std is NaN (not > 0) with
\* fewer than two returns or with an infinite return, and 0 when all returns
\* are equal.
sharpe_ratio(eq, len) ==
    LET K == ReturnIdx(eq, len)
    IN  IF Cardinality(K) < 2 \/ (\E k \in K : eq[k-1] = Zero) THEN Zero
        ELSE IF \A k1, k2 \in K : pct_change(eq, k1) = pct_change(eq, k2) THEN Zero
        ELSE Sign(SumReturns(eq, K))

MetricKeys ==
    {"total_trades", "winning_trades", "losing_trades", "win_rate", "total_pnl",
     "avg_win", "avg_loss", "profit_factor", "max_drawdown", "sharpe_ratio",
     "final_equity", "roi"}

\* _empty_metrics without the equity keys.
_empty_metrics_short == [k \in MetricKeys \ {"final_equity", "roi"} |-> Zero]

_empty_metrics == [k \in MetricKeys |-> Zero]

\* _calculate_metrics with the profit factor taken without abs().
_calculate_metrics_signed_pf(eq, trades_df, len) ==
    IF Len(trades_df) = 0 THEN _empty_metrics
    ELSE
      LET winning_trades == SelectSeq(trades_df, IsWin)
          losing_trades == SelectSeq(trades_df, IsLoss)
      IN  [total_trades |-> R(Len(trades_df)),
           winning_trades |-> R(Len(winning_trades)),
           losing_trades |-> R(Len(losing_trades)),
           win_rate |-> RMul(RDiv(R(Len(winning_trades)), R(Len(trades_df))), R(100)),
           total_pnl |-> SumPnl(trades_df),
           avg_win |-> IF Len(winning_trades) > 0 THEN MeanPnl(winning_trades) ELSE Zero,
           avg_loss |-> IF Len(losing_trades) > 0 THEN MeanPnl(losing_trades) ELSE Zero,
           profit_factor |->
               IF Len(losing_trades) > 0 /\ SumPnl(losing_trades) # Zero
               THEN RDiv(SumPnl(winning_trades), SumPnl(losing_trades))
               ELSE Zero,
           max_drawdown |-> _calculate_max_drawdown(eq, len),
           sharpe_ratio |-> sharpe_ratio(eq, len),
           final_equity |-> eq[len - 1],
           roi |-> RMul(RDiv(RSub(eq[len - 1], eq[0]), eq[0]), R(100))]

_calculate_metrics(eq, trades_df, len) ==
    IF Len(trades_df) = 0 THEN _empty_metrics
    ELSE
      LET winning_trades == SelectSeq(trades_df, IsWin)
          losing_trades == SelectSeq(trades_df, IsLoss)
      IN  [total_trades |-> R(Len(trades_df)),
           winning_trades |-> R(Len(winning_trades)),
           losing_trades |-> R(Len(losing_trades)),
           win_rate |-> RMul(RDiv(R(Len(winning_trades)), R(Len(trades_df))), R(100)),
           total_pnl |-> SumPnl(trades_df),
           avg_win |-> IF Len(winning_trades) > 0 THEN MeanPnl(winning_trades) ELSE Zero,
           avg_loss |-> IF Len(losing_trades) > 0 THEN MeanPnl(losing_trades) ELSE Zero,
           profit_factor |->
               IF Len(losing_trades) > 0 /\ SumPnl(losing_trades) # Zero
               THEN RAbs(RDiv(SumPnl(winning_trades), SumPnl(losing_trades)))
               ELSE Zero,
           max_drawdown |-> _calculate_max_drawdown(eq, len),
           sharpe_ratio |-> sharpe_ratio(eq, len),
           final_equity |-> eq[len - 1],
           roi |-> RMul(RDiv(RSub(eq[len - 1], eq[0]), eq[0]), R(100))]

\* --------------------------------------------------- BacktestEngine.run
\* The tracking arrays and the trade list, as one value.
Tracking ==
    [positions |-> positions, entry_prices |-> entry_prices,
     stop_losses |-> stop_losses, take_profits |-> take_profits,
     equity |-> equity, trades_list |-> trades_list]

\* The exit block recording the exit row as the trade's entry_bar.
ExitBlock_entry_bar_is_exit_bar(cfg, r, j, s) ==
    IF s.positions[j-1] = Zero THEN s
    ELSE
      LET chk == _check_exit(r, s.positions[j-1], s.entry_prices[j-1],
                             s.stop_losses[j-1], s.take_profits[j-1])
      IN  IF chk.exit THEN
            LET exit_price == r.close
                pnl == _calculate_pnl(s.entry_prices[j-1], exit_price,
                                      s.positions[j-1], cfg.commission_per_trade)
            IN  [s EXCEPT
                   !.equity[j] = RAdd(s.equity[j-1], pnl),
                   !.trades_list = Append(@,
                       [entry_bar |-> j,
                        exit_bar |-> j,
                        direction |-> IF RLt(Zero, s.positions[j-1])
                                      THEN "long" ELSE "short",
                        entry_price |-> s.entry_prices[j-1],
                        exit_price |-> exit_price,
                        pnl |-> pnl,
                        exit_reason |-> chk.reason]),
                   !.positions[j] = Zero]
          ELSE
            [s EXCEPT
               !.positions[j] = s.positions[j-1],
               !.entry_prices[j] = s.entry_prices[j-1],
               !.stop_losses[j] = s.stop_losses[j-1],
               !.take_profits[j] = s.take_profits[j-1],
               !.equity[j] = s.equity[j-1]]

\* "Check for exits first": the body of `if positions[i-1] != 0` at row j.
ExitBlock(cfg, r, j, s) ==
    IF s.positions[j-1] = Zero THEN s
    ELSE
      LET chk == _check_exit(r, s.positions[j-1], s.entry_prices[j-1],
                             s.stop_losses[j-1], s.take_profits[j-1])
      IN  IF chk.exit THEN
            LET exit_price == r.close
                pnl == _calculate_pnl(s.entry_prices[j-1], exit_price,
                                      s.positions[j-1], cfg.commission_per_trade)
            IN  [s EXCEPT
                   !.equity[j] = RAdd(s.equity[j-1], pnl),
                   !.trades_list = Append(@,
                       [entry_bar |-> j - 1,
                        exit_bar |-> j,
                        direction |-> IF RLt(Zero, s.positions[j-1])
                                      THEN "long" ELSE "short",
                        entry_price |-> s.entry_prices[j-1],
                        exit_price |-> exit_price,
                        pnl |-> pnl,
                        exit_reason |-> chk.reason]),
                   !.positions[j] = Zero]
          ELSE
            [s EXCEPT
               !.positions[j] = s.positions[j-1],
               !.entry_prices[j] = s.entry_prices[j-1],
               !.stop_losses[j] = s.stop_losses[j-1],
               !.take_profits[j] = s.take_profits[j-1],
               !.equity[j] = s.equity[j-1]]

\* The entry block entering only on rows whose filter_ok and session_ok are set.
EntryBlock_gated(cfg, r, j, s) ==
    IF s.positions[j] = Zero /\ r.signal_long /\ r.filter_ok /\ r.session_ok THEN
        LET e == _enter_long(cfg, r, s.equity[j-1])
        IN  [s EXCEPT !.positions[j] = e.qty, !.entry_prices[j] = e.entry_price,
                      !.stop_losses[j] = e.sl, !.take_profits[j] = e.tp,
                      !.equity[j] = s.equity[j-1]]
    ELSE IF s.positions[j] = Zero /\ r.signal_short /\ r.filter_ok /\ r.session_ok THEN
        LET e == _enter_short(cfg, r, s.equity[j-1])
        IN  [s EXCEPT !.positions[j] = e.qty, !.entry_prices[j] = e.entry_price,
                      !.stop_losses[j] = e.sl, !.take_profits[j] = e.tp,
                      !.equity[j] = s.equity[j-1]]
    ELSE s

\* The entry block entering only when the row before was flat already.
EntryBlock_flat_before(cfg, r, j, s) ==
    IF s.positions[j-1] = Zero /\ s.positions[j] = Zero /\ r.signal_long THEN
        LET e == _enter_long(cfg, r, s.equity[j-1])
        IN  [s EXCEPT !.positions[j] = e.qty, !.entry_prices[j] = e.entry_price,
                      !.stop_losses[j] = e.sl, !.take_profits[j] = e.tp,
                      !.equity[j] = s.equity[j-1]]
    ELSE IF s.positions[j-1] = Zero /\ s.positions[j] = Zero /\ r.signal_short THEN
        LET e == _enter_short(cfg, r, s.equity[j-1])
        IN  [s EXCEPT !.positions[j] = e.qty, !.entry_prices[j] = e.entry_price,
                      !.stop_losses[j] = e.sl, !.take_profits[j] = e.tp,
                      !.equity[j] = s.equity[j-1]]
    ELSE s

\* The entry block opening a long on every flat row, signal or not.
EntryBlock_without_signal(cfg, r, j, s) ==
    IF s.positions[j] = Zero THEN
        LET e == _enter_long(cfg, r, s.equity[j-1])
        IN  [s EXCEPT !.positions[j] = e.qty, !.entry_prices[j] = e.entry_price,
                      !.stop_losses[j] = e.sl, !.take_profits[j] = e.tp,
                      !.equity[j] = s.equity[j-1]]
    ELSE s

\* The entry block without its flat test: a signal replaces an open position.
EntryBlock_not_flat(cfg, r, j, s) ==
    IF r.signal_long THEN
        LET e == _enter_long(cfg, r, s.equity[j-1])
        IN  [s EXCEPT !.positions[j] = e.qty, !.entry_prices[j] = e.entry_price,
                      !.stop_losses[j] = e.sl, !.take_profits[j] = e.tp,
                      !.equity[j] = s.equity[j-1]]
    ELSE IF r.signal_short THEN
        LET e == _enter_short(cfg, r, s.equity[j-1])
        IN  [s EXCEPT !.positions[j] = e.qty, !.entry_prices[j] = e.entry_price,
                      !.stop_losses[j] = e.sl, !.take_profits[j] = e.tp,
                      !.equity[j] = s.equity[j-1]]
    ELSE s

\* The entry block with the short signal tested first.
EntryBlock_short_first(cfg, r, j, s) ==
    IF s.positions[j] = Zero /\ r.signal_short THEN
        LET e == _enter_short(cfg, r, s.equity[j-1])
        IN  [s EXCEPT !.positions[j] = e.qty, !.entry_prices[j] = e.entry_price,
                      !.stop_losses[j] = e.sl, !.take_profits[j] = e.tp,
                      !.equity[j] = s.equity[j-1]]
    ELSE IF s.positions[j] = Zero /\ r.signal_long THEN
        LET e == _enter_long(cfg, r, s.equity[j-1])
        IN  [s EXCEPT !.positions[j] = e.qty, !.entry_prices[j] = e.entry_price,
                      !.stop_losses[j] = e.sl, !.take_profits[j] = e.tp,
                      !.equity[j] = s.equity[j-1]]
    ELSE s

\* "Check for new entries (only if flat)": the if / elif at row j.
EntryBlock(cfg, r, j, s) ==
    IF s.positions[j] = Zero /\ r.signal_long THEN
        LET e == _enter_long(cfg, r, s.equity[j-1])
        IN  [s EXCEPT !.positions[j] = e.qty, !.entry_prices[j] = e.entry_price,
                      !.stop_losses[j] = e.sl, !.take_profits[j] = e.tp,
                      !.equity[j] = s.equity[j-1]]
    ELSE IF s.positions[j] = Zero /\ r.signal_short THEN
        LET e == _enter_short(cfg, r, s.equity[j-1])
        IN  [s EXCEPT !.positions[j] = e.qty, !.entry_prices[j] = e.entry_price,
                      !.stop_losses[j] = e.sl, !.take_profits[j] = e.tp,
                      !.equity[j] = s.equity[j-1]]
    ELSE s

NoMetrics == <<>>

\* Start with the entry signals of the first row acted on.
Start_entering_on_first_row(B) ==
    /\ config \in BacktestConfig
    /\ n \in 0..MaxBars
    /\ i = 0
    /\ row \in (IF n = 0 THEN {NoRow} ELSE B)
    /\ LET first(field) ==
             IF n >= 1 /\ row.signal_long
             THEN _enter_long(config, row, config.initial_capital)[field]
             ELSE IF n >= 1 /\ row.signal_short
             THEN _enter_short(config, row, config.initial_capital)[field]
             ELSE Zero
       IN  /\ positions = [k \in 0..(n - 1) |-> IF k = 0 THEN first("qty") ELSE Zero]
           /\ entry_prices = [k \in 0..(n - 1) |-> IF k = 0 THEN first("entry_price") ELSE Zero]
           /\ stop_losses = [k \in 0..(n - 1) |-> IF k = 0 THEN first("sl") ELSE Zero]
           /\ take_profits = [k \in 0..(n - 1) |-> IF k = 0 THEN first("tp") ELSE Zero]
    /\ equity = [k \in 0..(n - 1) |-> config.initial_capital]
    /\ trades_list = <<>>
    /\ metrics = NoMetrics
    /\ pc = "loop"
    /\ NoOptimize
    /\ NoOther

\* run has been called with a frame of n rows drawn from B: the tracking arrays
\* are allocated, the loop has not started. row is the frame's first row.
Start(B) ==
    /\ config \in BacktestConfig
    /\ n \in 0..MaxBars
    /\ i = 0
    /\ row \in (IF n = 0 THEN {NoRow} ELSE B)
    /\ positions = [k \in 0..(n - 1) |-> Zero]
    /\ entry_prices = [k \in 0..(n - 1) |-> Zero]
    /\ stop_losses = [k \in 0..(n - 1) |-> Zero]
    /\ take_profits = [k \in 0..(n - 1) |-> Zero]
    /\ equity = [k \in 0..(n - 1) |-> config.initial_capital]
    /\ trades_list = <<>>
    /\ metrics = NoMetrics
    /\ pc = "loop"
    /\ NoOptimize
    /\ NoOther

Init == Start(ValidBars)

\* One iteration of `for i in range(1, len(df))`, on the next row of a frame
\* whose rows are drawn from B.
Iteration(B) ==
    /\ pc = "loop"
    /\ i + 1 < n
    /\ \E r \in B :
         LET s == EntryBlock(config, r, i + 1, ExitBlock(config, r, i + 1, Tracking))
         IN  /\ row' = r
             /\ i' = i + 1
             /\ positions' = s.positions
             /\ entry_prices' = s.entry_prices
             /\ stop_losses' = s.stop_losses
             /\ take_profits' = s.take_profits
             /\ equity' = s.equity
             /\ trades_list' = s.trades_list
    /\ UNCHANGED <<config, n, metrics, pc>>
    /\ UNCHANGED optimizer_vars
    /\ UNCHANGED other_vars

LoopBody == Iteration(ValidBars)

\* Return with a position still open closed at the last row's close.
Return_end_of_data_close ==
    /\ pc = "loop"
    /\ i + 1 >= n
    /\ trades_list' =
         IF n >= 1 /\ positions[n-1] # Zero
         THEN Append(trades_list,
                [entry_bar |-> n - 1,
                 exit_bar |-> n,
                 direction |-> IF RLt(Zero, positions[n-1]) THEN "long" ELSE "short",
                 entry_price |-> entry_prices[n-1],
                 exit_price |-> row.close,
                 pnl |-> _calculate_pnl(entry_prices[n-1], row.close, positions[n-1],
                                        config.commission_per_trade),
                 exit_reason |-> "end_of_data"])
         ELSE trades_list
    /\ metrics' = _calculate_metrics(equity, trades_list', n)
    /\ pc' = "done"
    /\ UNCHANGED <<config, n, i, row, positions, entry_prices, stop_losses,
                   take_profits, equity>>
    /\ UNCHANGED optimizer_vars
    /\ UNCHANGED other_vars

\* The loop is over: the metrics are computed and the BacktestResult returned.
Return ==
    /\ pc = "loop"
    /\ i + 1 >= n
    /\ metrics' = _calculate_metrics(equity, trades_list, n)
    /\ pc' = "done"
    /\ UNCHANGED <<config, n, i, row, positions, entry_prices, stop_losses,
                   take_profits, equity, trades_list>>
    /\ UNCHANGED optimizer_vars
    /\ UNCHANGED other_vars

Next == LoopBody \/ Return

Spec == Init /\ [][Next]_vars

\* The runs over a frame that has the filter_ok and session_ok columns too:
\* bars on one level, with long signals only.
FlaggedBars ==
    { b \in [high : {R(p) : p \in Prices}, low : {R(p) : p \in Prices},
             close : {R(p) : p \in Prices}, signal_long : BOOLEAN,
             signal_short : {FALSE}, filter_ok : BOOLEAN, session_ok : BOOLEAN] :
        b.high = b.low /\ b.close = b.high }

InitFlagged == Start(FlaggedBars)

LoopBodyFlagged == Iteration(FlaggedBars)

NextFlagged == LoopBodyFlagged \/ Return

SpecFlagged == InitFlagged /\ [][NextFlagged]_vars

\* The runs over a frame in which no row has signal_long or signal_short set.
QuietBars == { b \in ValidBars : ~b.signal_long /\ ~b.signal_short }

InitQuiet == Start(QuietBars)

LoopBodyQuiet == Iteration(QuietBars)

NextQuiet == LoopBodyQuiet \/ Return

SpecQuiet == InitQuiet /\ [][NextQuiet]_vars

\* ----------------------------------------------------- optimizer inputs
\* Python's min(x, y): the first argument unless the second is smaller.
RMin(x, y) == IF RLt(y, x) THEN y ELSE x

\* Python's None.
None == [kind |-> "None"]

\* The names registered by the @component decorators.
COMPONENT_REGISTRY ==
    [entry_pattern |-> {"sacudida", "envolvente", "volumen_climatico"},
     filter |-> {"ma_cross", "rsi_filter"},
     session |-> {"london", "newyork", "tokyo"},
     indicator |-> {},
     exit |-> {}]

\* The component registered under category and name, or None.
get_component(category, name) ==
    IF category \in DOMAIN COMPONENT_REGISTRY /\ name \in COMPONENT_REGISTRY[category]
    THEN [kind |-> "component", category |-> category, name |-> name]
    ELSE None

PatternNames == {"sacudida", "no_such_pattern"}

FilterConfigs ==
    { <<>>,
      <<[name |-> "rsi_filter"], [name |-> "no_such_filter"]>> }

\* The value list [1, ..., k] of one parameter.
Values(k) == [x \in 1..k |-> x]

\* Parameter grids of at most MaxJobs combinations over one or two parameters.
ParameterRanges ==
    {<<>>}
    \cup { <<[name |-> "p1", values |-> Values(k)]>> : k \in 1..MaxJobs }
    \cup { <<[name |-> "p1", values |-> Values(k[1])],
             [name |-> "p2", values |-> Values(k[2])]>> :
           k \in { q \in (2..MaxJobs) \X (2..MaxJobs) : q[1] * q[2] <= MaxJobs } }

\* A metrics dict with the four entries the optimizer reads set.
Metrics(total_trades, roi, profit_factor, max_drawdown) ==
    [_empty_metrics EXCEPT !["total_trades"] = R(total_trades),
                           !["roi"] = roi,
                           !["profit_factor"] = profit_factor,
                           !["max_drawdown"] = max_drawdown]

\* Metrics of runs with trades: one with the roi inside its clamp, the profit
\* factor above its cap and the drawdown below its floor, one with the roi
\* above its cap and the other two inside.
SampleMetrics ==
    { Metrics(2, R(10), R(6), R(-150)),
      Metrics(1, R(300), <<3, 2>>, R(-20)) }

\* The pattern function, a filter function or engine.run raised.
Raises == [kind |-> "Exception"]

\* What the body of a worker comes to for one parameter dict: the metrics of
\* the BacktestResult (those of a run without trades included) or an exception.
Outcomes == SampleMetrics \cup {_empty_metrics, Raises}

\* ------------------------------------------------- StrategyOptimizer
\* A product of the value lists in which the first list varies fastest.
RECURSIVE product_first_fastest(_)
product_first_fastest(lists) ==
    IF Len(lists) = 0 THEN << <<>> >>
    ELSE LET front == product_first_fastest(SubSeq(lists, 1, Len(lists) - 1))
             last == lists[Len(lists)]
         IN  [k \in 1..(Len(front) * Len(last)) |->
                Append(front[((k - 1) % Len(front)) + 1],
                       last[((k - 1) \div Len(front)) + 1])]

\* itertools.product of the value lists: the last list varies fastest.
RECURSIVE product(_)
product(lists) ==
    IF Len(lists) = 0 THEN << <<>> >>
    ELSE LET front == product(SubSeq(lists, 1, Len(lists) - 1))
             last == lists[Len(lists)]
         IN  [k \in 1..(Len(front) * Len(last)) |->
                Append(front[((k - 1) \div Len(last)) + 1],
                       last[((k - 1) % Len(last)) + 1])]

\* dict(zip(param_names, combo)).
dict_zip(param_names, combo) ==
    [nm \in { param_names[x] : x \in 1..Len(param_names) } |->
        combo[CHOOSE x \in 1..Len(param_names) : param_names[x] = nm]]

\* combinations that is empty when no parameter range is given.
combinations_none_for_no_ranges(ranges) ==
    IF Len(ranges) = 0 THEN <<>>
    ELSE LET param_names == [x \in 1..Len(ranges) |-> ranges[x].name]
             param_values == [x \in 1..Len(ranges) |-> ranges[x].values]
             combos == product(param_values)
         IN  [k \in 1..Len(combos) |-> dict_zip(param_names, combos[k])]

\* The parameter combinations of a call, as dicts, in job order.
combinations(ranges) ==
    IF Len(ranges) = 0 THEN << <<>> >>
    ELSE LET param_names == [x \in 1..Len(ranges) |-> ranges[x].name]
             param_values == [x \in 1..Len(ranges) |-> ranges[x].values]
             combos == product(param_values)
         IN  [k \in 1..Len(combos) |-> dict_zip(param_names, combos[k])]

\* The job list with the caller's df itself handed to every job.
prepare_jobs_shared_df(pattern, ranges, filters, cfg) ==
    LET cs == combinations(ranges)
    IN  [k \in 1..Len(cs) |->
           [df |-> CallerFrame, pattern_name |-> pattern, params |-> cs[k],
            filter_configs |-> filters, config |-> cfg]]

\* The job list: one (df.copy(), pattern_name, params, filter_configs, config)
\* per combination; <<k, 0>> is the copy made for job k.
prepare_jobs(pattern, ranges, filters, cfg) ==
    LET cs == combinations(ranges)
    IN  [k \in 1..Len(cs) |->
           [df |-> <<k, 0>>, pattern_name |-> pattern, params |-> cs[k],
            filter_configs |-> filters, config |-> cfg]]

\* df.copy() for every job that was handed a copy: a new object with the
\* columns of the caller's df, written by nobody.
job_copies(fr, js) ==
    [f \in DOMAIN fr \cup { js[k].df : k \in DOMAIN js } |->
        IF f \in DOMAIN fr THEN fr[f]
        ELSE [columns |-> fr[CallerFrame].columns, written_by |-> {}]]

OptimizationResult(parameters, m, rank_score) ==
    [kind |-> "OptimizationResult", parameters |-> parameters, metrics |-> m,
     rank_score |-> rank_score]

\* The filters of a job that are applied: a name that is not registered is
\* skipped.
applied_filters(filters) ==
    SelectSeq(filters, LAMBDA f : get_component("filter", f.name) # None)

\* The columns a filter function adds to its copy of the frame.
filter_columns(name) ==
    IF name = "ma_cross" THEN {"filter_ok", "sma_fast", "sma_slow"}
    ELSE IF name = "rsi_filter" THEN {"rsi", "filter_ok"}
    ELSE {}

\* The columns of df_signals after the pattern and the first x applied filters.
RECURSIVE signals_columns(_, _, _)
signals_columns(base, fs, x) ==
    IF x = 0 THEN base \cup {"signal_long", "signal_short"}
    ELSE signals_columns(base, fs, x - 1) \cup filter_columns(fs[x].name)

\* The DataFrame objects after the worker has run job j: the pattern function
\* and every applied filter copy the frame they are given and write their
\* columns into the copy, the worker writes the filtered signals into the last
\* of these copies, and engine.run copies it once more and writes nothing. An
\* unregistered pattern raises before any frame is made.
worker_frames(fr, j, args) ==
    IF get_component("entry_pattern", args.pattern_name) = None THEN fr
    ELSE
      LET fs == applied_filters(args.filter_configs)
          made == { <<j, x>> : x \in 1..(Len(fs) + 2) }
      IN  [f \in DOMAIN fr \cup made |->
             IF f \in made
             THEN IF f[2] <= Len(fs) + 1
                  THEN [columns |-> signals_columns(fr[args.df].columns, fs, f[2] - 1),
                        written_by |-> {j}]
                  ELSE [columns |-> signals_columns(fr[args.df].columns, fs, Len(fs)),
                        written_by |-> {}]
             ELSE fr[f]]

\* The body of the worker's try block: the value it returns, or Raises.
worker_body(args) ==
    IF get_component("entry_pattern", args.pattern_name) = None THEN Raises
    ELSE IF run_outcome[args.params] = Raises THEN Raises
    ELSE OptimizationResult(args.params, run_outcome[args.params], Zero)

\* _run_single_backtest_worker without its except clause.
_run_single_backtest_worker_no_except(args) == worker_body(args)

\* try: ... except Exception: return None.
_run_single_backtest_worker(args) ==
    IF worker_body(args) = Raises THEN None ELSE worker_body(args)

\* The composite score of _rank_results with the profit factor left uncapped.
composite_score_uncapped_pf(m) ==
    LET roi_component == RMin(RMax(RDiv(m["roi"], R(100)), R(-1)), R(2))
        pf_component == RDiv(m["profit_factor"], R(3))
        dd_component == RMax(RSub(R(1), RDiv(RAbs(m["max_drawdown"]), R(100))), Zero)
    IN  RAdd(RAdd(RMul(roi_component, <<3, 10>>), RMul(pf_component, <<3, 10>>)),
             RMul(dd_component, <<2, 5>>))

\* The composite score _rank_results gives a metrics dict.
composite_score(m) ==
    LET roi_component == RMin(RMax(RDiv(m["roi"], R(100)), R(-1)), R(2))
        pf_component == RMin(RDiv(m["profit_factor"], R(3)), R(1))
        dd_component == RMax(RSub(R(1), RDiv(RAbs(m["max_drawdown"]), R(100))), Zero)
    IN  RAdd(RAdd(RMul(roi_component, <<3, 10>>), RMul(pf_component, <<3, 10>>)),
             RMul(dd_component, <<2, 5>>))

\* The three components _rank_results computes from a metrics dict.
roi_component(m) == RMin(RMax(RDiv(m["roi"], R(100)), R(-1)), R(2))

pf_component(m) == RMin(RDiv(m["profit_factor"], R(3)), R(1))

dd_component(m) == RMax(RSub(R(1), RDiv(RAbs(m["max_drawdown"]), R(100))), Zero)

\* insert that puts x before the entries of equal score.
insert_before_ties(sorted, x) ==
    LET p == Cardinality({ k \in 1..Len(sorted) : RLt(x.rank_score, sorted[k].rank_score) })
    IN  SubSeq(sorted, 1, p) \o <<x>> \o SubSeq(sorted, p + 1, Len(sorted))

\* x put into a list sorted by non-increasing rank_score, after the entries
\* whose score is not smaller: list.sort is stable, with reverse=True too.
insert(sorted, x) ==
    LET p == Cardinality({ k \in 1..Len(sorted) : RLe(x.rank_score, sorted[k].rank_score) })
    IN  SubSeq(sorted, 1, p) \o <<x>> \o SubSeq(sorted, p + 1, Len(sorted))

\* results.sort(key=lambda r: r.rank_score, reverse=True).
RECURSIVE sort_reverse(_)
sort_reverse(rs) ==
    IF Len(rs) = 0 THEN <<>>
    ELSE insert(sort_reverse(SubSeq(rs, 1, Len(rs) - 1)), rs[Len(rs)])

_rank_results(rs) ==
    sort_reverse([k \in 1..Len(rs) |->
                    [rs[k] EXCEPT !.rank_score = composite_score(rs[k].metrics)]])

\* The result filter keeping every result that is not None.
is_valid_not_none(r) == r # None

\* r is not None and r.metrics['total_trades'] > 0.
is_valid(r) == r # None /\ RLt(Zero, r.metrics["total_trades"])

\* A map result that stores the values in the order the jobs return.
MapResult_set_in_return_order(res, returned, j, r) == [res EXCEPT ![returned + 1] = r]

\* Pool.map keeps one slot per job: the value of job j goes to slot j, whatever
\* the number of jobs that returned before.
MapResult_set(res, returned, j, r) == [res EXCEPT ![j] = r]

\* pool.map returning as soon as the first job has returned.
map_done_first_only(states) == states[1] = "returned"

\* The list comprehension and pool.map return once every job has returned.
map_done(states) == \A j \in DOMAIN states : states[j] = "returned"

Returned(states) == { j \in DOMAIN states : states[j] = "returned" }
Running(states) == { j \in DOMAIN states : states[j] = "running" }

\* The parameter dicts of a grid.
ParamDicts(ranges) == { combinations(ranges)[k] : k \in 1..Len(combinations(ranges)) }

\* The config the optimizer is built with; optimize only hands it to the jobs.
OptimizerConfig == { c \in BacktestConfig : c.position_sizing = "fixed" }

\* optimize has not been called yet; the engine is not running on its own.
InitOpt ==
    /\ config \in OptimizerConfig
    /\ n = 0
    /\ i = 0
    /\ row = NoRow
    /\ positions = <<>>
    /\ entry_prices = <<>>
    /\ stop_losses = <<>>
    /\ take_profits = <<>>
    /\ equity = <<>>
    /\ trades_list = <<>>
    /\ metrics = NoMetrics
    /\ pc = "idle"
    /\ pattern_name \in PatternNames
    /\ parameter_ranges \in ParameterRanges
    /\ filter_configs \in FilterConfigs
    /\ n_jobs \in 1..MaxWorkers
    /\ run_outcome \in
         IF get_component("entry_pattern", pattern_name) = None
         THEN { [d \in ParamDicts(parameter_ranges) |-> Raises] }
         ELSE [ParamDicts(parameter_ranges) -> Outcomes]
    /\ jobs = <<>>
    /\ job_state = <<>>
    /\ results = <<>>
    /\ output = <<>>
    /\ opt_pc = "idle"
    /\ frames = CallerFrames
    /\ NoOther

\* optimize is called: the combinations are generated and the jobs prepared.
Optimize ==
    /\ opt_pc = "idle"
    /\ jobs' = prepare_jobs(pattern_name, parameter_ranges, filter_configs, config)
    /\ job_state' = [j \in DOMAIN jobs' |-> "pending"]
    /\ results' = [j \in DOMAIN jobs' |-> None]
    /\ opt_pc' = "map"
    /\ frames' = job_copies(frames, jobs')
    /\ UNCHANGED <<pattern_name, parameter_ranges, filter_configs, n_jobs,
                   run_outcome, output>>
    /\ UNCHANGED engine_vars
    /\ UNCHANGED other_vars

\* n_jobs == 1: the list comprehension runs the next job of the list.
Serial ==
    /\ opt_pc = "map"
    /\ n_jobs = 1
    /\ \E j \in DOMAIN jobs :
         /\ job_state[j] = "pending"
         /\ \A k \in 1..(j - 1) : job_state[k] = "returned"
         /\ results' = [results EXCEPT ![j] = _run_single_backtest_worker(jobs[j])]
         /\ job_state' = [job_state EXCEPT ![j] = "returned"]
         /\ frames' = worker_frames(frames, j, jobs[j])
    /\ UNCHANGED <<pattern_name, parameter_ranges, filter_configs, n_jobs,
                   run_outcome, jobs, output, opt_pc>>
    /\ UNCHANGED engine_vars
    /\ UNCHANGED other_vars

\* A free process of the pool takes a job.
PoolStart ==
    /\ opt_pc = "map"
    /\ n_jobs # 1
    /\ Cardinality(Running(job_state)) < n_jobs
    /\ \E j \in DOMAIN jobs :
         /\ job_state[j] = "pending"
         /\ job_state' = [job_state EXCEPT ![j] = "running"]
    /\ UNCHANGED <<pattern_name, parameter_ranges, filter_configs, n_jobs,
                   run_outcome, jobs, results, output, opt_pc, frames>>
    /\ UNCHANGED engine_vars
    /\ UNCHANGED other_vars

\* A process of the pool returns the value of its job.
PoolReturn ==
    /\ opt_pc = "map"
    /\ n_jobs # 1
    /\ \E j \in DOMAIN jobs :
         /\ job_state[j] = "running"
         /\ results' = MapResult_set(results, Cardinality(Returned(job_state)), j,
                                     _run_single_backtest_worker(jobs[j]))
         /\ job_state' = [job_state EXCEPT ![j] = "returned"]
         /\ frames' = worker_frames(frames, j, jobs[j])
    /\ UNCHANGED <<pattern_name, parameter_ranges, filter_configs, n_jobs,
                   run_outcome, jobs, output, opt_pc>>
    /\ UNCHANGED engine_vars
    /\ UNCHANGED other_vars

\* Every job has returned: the results are filtered, ranked and returned. An
\* exception that left a worker is raised again by the list comprehension or
\* by pool.map and leaves optimize.
Collect ==
    /\ opt_pc = "map"
    /\ map_done(job_state)
    /\ IF \E j \in DOMAIN results : results[j] = Raises
       THEN /\ output' = <<>>
            /\ opt_pc' = "raised"
       ELSE /\ output' = IF Len(SelectSeq(results, is_valid)) = 0 THEN <<>>
                         ELSE _rank_results(SelectSeq(results, is_valid))
            /\ opt_pc' = "returned"
    /\ UNCHANGED <<pattern_name, parameter_ranges, filter_configs, n_jobs,
                   run_outcome, jobs, job_state, results, frames>>
    /\ UNCHANGED engine_vars
    /\ UNCHANGED other_vars

NextOpt == Optimize \/ Serial \/ PoolStart \/ PoolReturn \/ Collect

SpecOpt == InitOpt /\ [][NextOpt]_vars

\* ------------------------------------- the worker's signals and filters
\* The engine is not running: no frame, no tracking arrays.
NoRun ==
    /\ config \in OptimizerConfig
    /\ n = 0
    /\ i = 0
    /\ row = NoRow
    /\ positions = <<>>
    /\ entry_prices = <<>>
    /\ stop_losses = <<>>
    /\ take_profits = <<>>
    /\ equity = <<>>
    /\ trades_list = <<>>
    /\ metrics = NoMetrics
    /\ pc = "idle"

\* The bar positions of the frame the worker is given.
SignalRows == {0, 1}

\* A boolean column of the frame.
Column == [SignalRows -> BOOLEAN]

\* The filter configs of a job, each with the filter_ok column its filter
\* function computes from the bars and the config's params; the function of
\* a name that is not registered is never called.
JobFilter ==
    { [name |-> f, filter_ok |-> c] : f \in COMPONENT_REGISTRY["filter"], c \in Column }
    \cup { [name |-> "no_such_filter", filter_ok |-> [r \in SignalRows |-> TRUE]] }

\* df[name] = column.
set_column(df, name, column) ==
    [c \in DOMAIN df \cup {name} |-> IF c = name THEN column ELSE df[c]]

\* The element-wise & of two boolean columns.
and_columns(a, b) == [r \in SignalRows |-> a[r] /\ b[r]]

\* filter_ma_cross and filter_rsi: df['filter_ok'] = ... in every branch.
filter_func(df, f) == set_column(df, "filter_ok", f.filter_ok)

\* The worker's step after its filter loop: the signal columns are and-ed
\* with filter_ok if there are filter configs and the column exists.
combine_filter_results(df, filters) ==
    IF Len(filters) > 0 /\ "filter_ok" \in DOMAIN df
    THEN set_column(set_column(df, "signal_long",
                               and_columns(df["signal_long"], df["filter_ok"])),
                    "signal_short", and_columns(df["signal_short"], df["filter_ok"]))
    ELSE df

\* A worker is about to call the pattern function of its job.
InitSignals ==
    /\ NoRun /\ NoOptimize /\ NoMulti /\ NoGrid /\ NoFetch
    /\ pattern_signals \in [{"signal_long", "signal_short"} -> Column]
    /\ job_filters \in UNION { [1..k -> JobFilter] : k \in 0..MaxFilters }
    /\ df_signals = <<>>
    /\ f_idx = 0
    /\ signals_pc = "idle"

\* df_signals = pattern_func(df, **params).
ApplyPattern ==
    /\ signals_pc = "idle"
    /\ df_signals' = pattern_signals
    /\ signals_pc' = "filters"
    /\ UNCHANGED <<pattern_signals, job_filters, f_idx>>
    /\ UNCHANGED <<engine_vars, optimizer_vars, multi_vars, grid_vars, dm_vars>>

\* One iteration of the loop over filter_configs.
ApplyFilter ==
    /\ signals_pc = "filters"
    /\ f_idx < Len(job_filters)
    /\ df_signals' =
         IF get_component("filter", job_filters[f_idx + 1].name) # None
         THEN filter_func(df_signals, job_filters[f_idx + 1])
         ELSE df_signals
    /\ f_idx' = f_idx + 1
    /\ UNCHANGED <<pattern_signals, job_filters, signals_pc>>
    /\ UNCHANGED <<engine_vars, optimizer_vars, multi_vars, grid_vars, dm_vars>>

\* The filter loop is over: the signals are combined with filter_ok and the
\* frame is handed to engine.run.
RunBacktest ==
    /\ signals_pc = "filters"
    /\ f_idx = Len(job_filters)
    /\ df_signals' = combine_filter_results(df_signals, job_filters)
    /\ signals_pc' = "run"
    /\ UNCHANGED <<pattern_signals, job_filters, f_idx>>
    /\ UNCHANGED <<engine_vars, optimizer_vars, multi_vars, grid_vars, dm_vars>>

NextSignals == ApplyPattern \/ ApplyFilter \/ RunBacktest

SpecSignals == InitSignals /\ [][NextSignals]_vars

\* ---------------------------------------------- optimize_multi_pattern
\* The (pattern_name, parameter_ranges) tuples of the model.
PatternConfigs ==
    { [pattern_name |-> p, parameter_ranges |-> r] :
        p \in {"sacudida", "envolvente", "no_such_pattern"},
        r \in { <<>>, <<[name |-> "p1", values |-> Values(2)]>> } }

\* The list of worker results of a whole optimize call, in job order.
map_results == [j \in DOMAIN jobs |-> _run_single_backtest_worker(jobs[j])]

\* What a whole optimize call returns: the results filtered and ranked.
optimize_returns(rs) ==
    IF Len(SelectSeq(rs, is_valid)) = 0 THEN <<>>
    ELSE _rank_results(SelectSeq(rs, is_valid))

\* The DataFrame objects after the workers of the first k jobs have run.
RECURSIVE frames_after_jobs(_, _, _)
frames_after_jobs(fr, js, k) ==
    IF k = 0 THEN fr
    ELSE worker_frames(frames_after_jobs(fr, js, k - 1), k, js[k])

\* parameters['pattern'] = name.
set_pattern(parameters, name) ==
    [k \in DOMAIN parameters \cup {"pattern"} |->
        IF k = "pattern" THEN name ELSE parameters[k]]

\* The tagging loop leaving the results as they are.
tag_results_not(rs, name) == rs

\* for r in results: r.parameters['pattern'] = pattern_name.
tag_results(rs, name) ==
    [x \in DOMAIN rs |-> [rs[x] EXCEPT !.parameters = set_pattern(@, name)]]

\* extend putting the new results in front of the list.
extend_in_front(list, rs) == rs \o list

\* list.extend(rs).
extend(list, rs) == list \o rs

\* optimize_multi_pattern is about to be called by an optimizer.
InitMulti ==
    /\ NoRun /\ NoOptimize /\ NoGrid /\ NoFetch /\ NoSignals
    /\ pattern_configs \in UNION { [1..k -> PatternConfigs] : k \in 0..MaxPatterns }
    /\ m_idx = 0
    /\ pattern_results = <<>>
    /\ all_results = <<>>
    /\ multi_pc = "idle"

\* optimize_multi_pattern is called: all_results = [].
OptimizeMultiPattern ==
    /\ multi_pc = "idle"
    /\ multi_pc' = "loop"
    /\ UNCHANGED <<pattern_configs, m_idx, pattern_results, all_results>>
    /\ UNCHANGED <<engine_vars, optimizer_vars, grid_vars, dm_vars, signal_vars>>

\* One iteration of the loop over pattern_configs: a whole call of optimize
\* for the entry (without filters), whose runs come out as run_outcome' says,
\* then the tagging of its results and all_results.extend(results).
OptimizePattern ==
    /\ multi_pc = "loop"
    /\ m_idx < Len(pattern_configs)
    /\ pattern_name' = pattern_configs[m_idx + 1].pattern_name
    /\ parameter_ranges' = pattern_configs[m_idx + 1].parameter_ranges
    /\ filter_configs' = <<>>
    /\ run_outcome' \in
         IF get_component("entry_pattern", pattern_name') = None
         THEN { [d \in ParamDicts(parameter_ranges') |-> Raises] }
         ELSE [ParamDicts(parameter_ranges') -> Outcomes]
    /\ jobs' = prepare_jobs(pattern_name', parameter_ranges', filter_configs', config)
    /\ job_state' = [j \in DOMAIN jobs' |-> "returned"]
    /\ results' = map_results'
    /\ frames' = frames_after_jobs(job_copies(CallerFrames, jobs'), jobs', Len(jobs'))
    /\ opt_pc' = "returned"
    /\ pattern_results' = Append(pattern_results, optimize_returns(results'))
    /\ output' = tag_results(pattern_results'[m_idx + 1], pattern_name')
    /\ all_results' = extend(all_results, output')
    /\ m_idx' = m_idx + 1
    /\ UNCHANGED <<n_jobs, pattern_configs, multi_pc>>
    /\ UNCHANGED <<engine_vars, grid_vars, dm_vars, signal_vars>>

\* The loop is over: all_results is ranked again and returned.
MultiReturn ==
    /\ multi_pc = "loop"
    /\ m_idx = Len(pattern_configs)
    /\ all_results' = _rank_results(all_results)
    /\ multi_pc' = "returned"
    /\ UNCHANGED <<pattern_configs, m_idx, pattern_results>>
    /\ UNCHANGED <<engine_vars, optimizer_vars, grid_vars, dm_vars, signal_vars>>

NextMulti == OptimizeMultiPattern \/ OptimizePattern \/ MultiReturn

SpecMulti == InitMulti /\ [][NextMulti]_vars

\* ------------------------------------------- generate_parameter_grid
\* The parameter specifications of the model: int ranges with positive, zero
\* and negative steps, float ranges whose values are exact binary fractions
\* (so that float addition is exact), choices, and a type the function does
\* not know.
ParamSpecs ==
    { [type |-> "int", min |-> R(lo), max |-> R(hi), step |-> R(st), options |-> <<>>] :
          lo \in {1, 2}, hi \in {3, 4}, st \in {-1, 0, 1, 2} }
    \cup { [type |-> "float", min |-> lo, max |-> R(2), step |-> st, options |-> <<>>] :
          lo \in {R(1), <<9, 8>>}, st \in {Zero, <<3, 8>>, <<1, 2>>} }
    \cup { [type |-> "choice", min |-> Zero, max |-> R(100), step |-> R(1), options |-> o] :
          o \in {<<>>, <<"long", "short", "both">>, <<"both", "long">>} }
    \cup { [type |-> "bool", min |-> Zero, max |-> R(100), step |-> R(1), options |-> <<>>] }

\* The name of the k-th entry of param_spec.
ParamName(k) == IF k = 1 THEN "p1" ELSE IF k = 2 THEN "p2" ELSE "p3"

\* list(range(start, stop, step)) for step # 0.
range_list(start, stop, step) ==
    LET count == IF step > 0
                 THEN (IF stop > start THEN ((stop - start - 1) \div step) + 1 ELSE 0)
                 ELSE (IF start > stop THEN ((start - stop - 1) \div (-step)) + 1 ELSE 0)
    IN  [k \in 1..count |-> start + (k - 1) * step]

\* int(x): the float x truncated towards zero.
int(x) == IF x[1] >= 0 THEN x[1] \div x[2] ELSE -((-x[1]) \div x[2])

\* The values of an int parameter with max left out of the range.
int_values_exclusive(spec) ==
    LET l == range_list(int(spec.min), int(spec.max), int(spec.step))
    IN  [k \in DOMAIN l |-> R(l[k])]

\* list(range(int(min_val), int(max_val) + 1, int(step))), for int(step) # 0.
int_values(spec) ==
    LET l == range_list(int(spec.min), int(spec.max) + 1, int(spec.step))
    IN  [k \in DOMAIN l |-> R(l[k])]

\* round(x, 2) of a float that is an exact binary fraction: the nearest
\* multiple of 0.01, the even one of two equally near.
round2(x) ==
    LET num == x[1] * 100
        q == IF num >= 0 THEN num \div x[2] ELSE -(((-num) + x[2] - 1) \div x[2])
        twice_rest == 2 * (num - q * x[2])
    IN  IF twice_rest < x[2] THEN Norm(q, 100)
        ELSE IF twice_rest > x[2] THEN Norm(q + 1, 100)
        ELSE IF q % 2 = 0 THEN Norm(q, 100) ELSE Norm(q + 1, 100)

\* param_grid[param_name] = vs.
grid_set(grid, name, vs) == Append(grid, [name |-> name, values |-> vs])

\* generate_parameter_grid is about to be called with up to MaxSpecs entries.
InitGrid ==
    /\ NoRun /\ NoOptimize /\ NoMulti /\ NoFetch /\ NoSignals
    /\ param_spec \in UNION { [1..k -> ParamSpecs] : k \in 0..MaxSpecs }
    /\ g_idx = 0
    /\ param_grid = <<>>
    /\ values = <<>>
    /\ current = Zero
    /\ grid_pc = "idle"

\* generate_parameter_grid is called: param_grid = {}.
GenerateParameterGrid ==
    /\ grid_pc = "idle"
    /\ grid_pc' = "for"
    /\ UNCHANGED <<param_spec, g_idx, param_grid, values, current>>
    /\ UNCHANGED <<engine_vars, optimizer_vars, multi_vars, dm_vars, signal_vars>>

\* The next entry of param_spec: an int range (range() raises ValueError for
\* a zero step) or a choice is stored at once, a float range starts its while
\* loop, an entry of another type is passed over.
ForParam ==
    /\ grid_pc = "for"
    /\ g_idx < Len(param_spec)
    /\ LET spec == param_spec[g_idx + 1]
           param_name == ParamName(g_idx + 1)
       IN  IF spec.type = "int" THEN
               IF int(spec.step) = 0
               THEN /\ grid_pc' = "raised"
                    /\ UNCHANGED <<g_idx, param_grid, values, current>>
               ELSE /\ param_grid' = grid_set(param_grid, param_name, int_values(spec))
                    /\ g_idx' = g_idx + 1
                    /\ UNCHANGED <<values, current, grid_pc>>
           ELSE IF spec.type = "float" THEN
               /\ values' = <<>>
               /\ current' = spec.min
               /\ grid_pc' = "while"
               /\ UNCHANGED <<g_idx, param_grid>>
           ELSE IF spec.type = "choice" THEN
               /\ param_grid' = grid_set(param_grid, param_name, spec.options)
               /\ g_idx' = g_idx + 1
               /\ UNCHANGED <<values, current, grid_pc>>
           ELSE
               /\ g_idx' = g_idx + 1
               /\ UNCHANGED <<param_grid, values, current, grid_pc>>
    /\ UNCHANGED param_spec
    /\ UNCHANGED <<engine_vars, optimizer_vars, multi_vars, dm_vars, signal_vars>>

\* One iteration of `while current <= float(max_val)`; the model follows the
\* loop for MaxValues iterations.
WhileStep ==
    /\ grid_pc = "while"
    /\ RLe(current, param_spec[g_idx + 1].max)
    /\ Len(values) < MaxValues
    /\ values' = Append(values, round2(current))
    /\ current' = RAdd(current, param_spec[g_idx + 1].step)
    /\ UNCHANGED <<param_spec, g_idx, param_grid, grid_pc>>
    /\ UNCHANGED <<engine_vars, optimizer_vars, multi_vars, dm_vars, signal_vars>>

\* The while loop is left: param_grid[param_name] = values.
WhileExit ==
    /\ grid_pc = "while"
    /\ ~RLe(current, param_spec[g_idx + 1].max)
    /\ param_grid' = grid_set(param_grid, ParamName(g_idx + 1), values)
    /\ g_idx' = g_idx + 1
    /\ grid_pc' = "for"
    /\ UNCHANGED <<param_spec, values, current>>
    /\ UNCHANGED <<engine_vars, optimizer_vars, multi_vars, dm_vars, signal_vars>>

\* return param_grid.
GridReturn ==
    /\ grid_pc = "for"
    /\ g_idx = Len(param_spec)
    /\ grid_pc' = "returned"
    /\ UNCHANGED <<param_spec, g_idx, param_grid, values, current>>
    /\ UNCHANGED <<engine_vars, optimizer_vars, multi_vars, dm_vars, signal_vars>>

NextGrid == GenerateParameterGrid \/ ForParam \/ WhileStep \/ WhileExit \/ GridReturn

SpecGrid == InitGrid /\ [][NextGrid]_vars

\* ------------------------------------------------------- DataManager
\* The keys of DataManager.PROVIDERS.
PROVIDERS == {"mock", "csv", "yfinance"}

\* The fallback lists of at most MaxFallbacks names, registered or not.
FallbackLists ==
    UNION { [1..k -> {"mock", "csv", "no_such_provider"}] : k \in 0..MaxFallbacks }

\* providers_to_try with the fallback providers put first.
providers_to_try_fallback_first(prov, default, fallback) ==
    fallback \o <<IF prov = "None" THEN default ELSE prov>>

\* providers_to_try: the requested provider, or the default one, and then the
\* fallback providers.
providers_to_try(prov, default, fallback) ==
    <<IF prov = "None" THEN default ELSE prov>> \o fallback

\* A DataManager has been built and fetch_data is about to be called.
InitFetch ==
    /\ NoRun /\ NoOptimize /\ NoMulti /\ NoGrid /\ NoSignals
    /\ default_provider \in {"mock", "csv"}
    /\ provider \in {"None", "yfinance", "no_such_provider"}
    /\ fallback_providers \in FallbackLists
    /\ fetch_succeeds \in [PROVIDERS -> BOOLEAN]
    /\ _provider_instances = {}
    /\ tried = <<>>
    /\ last_error = "None"
    /\ fetched = "None"
    /\ fetch_pc = "idle"

\* fetch_data is called: the provider order is determined.
FetchData ==
    /\ fetch_pc = "idle"
    /\ fetch_pc' = "for"
    /\ UNCHANGED <<default_provider, provider, fallback_providers, fetch_succeeds,
                   _provider_instances, tried, last_error, fetched>>
    /\ UNCHANGED <<engine_vars, optimizer_vars, multi_vars, grid_vars, signal_vars>>

\* One iteration of `for prov_name in providers_to_try`: get_provider raises
\* ValueError for a name that is not registered, the provider's fetch_data
\* returns the data or raises, and any exception moves on to the next name.
TryProvider ==
    /\ fetch_pc = "for"
    /\ Len(tried) < Len(providers_to_try(provider, default_provider, fallback_providers))
    /\ LET prov_name == providers_to_try(provider, default_provider,
                                         fallback_providers)[Len(tried) + 1]
       IN  /\ tried' = Append(tried, prov_name)
           /\ IF prov_name \notin PROVIDERS
              THEN /\ last_error' = "ValueError"
                   /\ UNCHANGED <<_provider_instances, fetched, fetch_pc>>
              ELSE /\ _provider_instances' = _provider_instances \cup {prov_name}
                   /\ IF fetch_succeeds[prov_name]
                      THEN /\ fetched' = prov_name
                           /\ fetch_pc' = "returned"
                           /\ UNCHANGED last_error
                      ELSE /\ last_error' = "DataNotFoundError"
                           /\ UNCHANGED <<fetched, fetch_pc>>
    /\ UNCHANGED <<default_provider, provider, fallback_providers, fetch_succeeds>>
    /\ UNCHANGED <<engine_vars, optimizer_vars, multi_vars, grid_vars, signal_vars>>

\* The loop has tried every name: DataNotFoundError is raised.
AllProvidersFailed ==
    /\ fetch_pc = "for"
    /\ Len(tried) = Len(providers_to_try(provider, default_provider, fallback_providers))
    /\ fetch_pc' = "raised"
    /\ UNCHANGED <<default_provider, provider, fallback_providers, fetch_succeeds,
                   _provider_instances, tried, last_error, fetched>>
    /\ UNCHANGED <<engine_vars, optimizer_vars, multi_vars, grid_vars, signal_vars>>

NextFetch == FetchData \/ TryProvider \/ AllProvidersFailed

SpecFetch == InitFetch /\ [][NextFetch]_vars

\* ------------------------------------------------------------ properties
\* In a state with i >= 1 the loop has just processed row i: row is df.iloc[i],
\* index i of the tracking arrays holds what the iteration wrote and index
\* i - 1 what it read.
Pos(x) == RLt(Zero, x)
Neg(x) == RLt(x, Zero)

Last(seq) == seq[Len(seq)]

Held == i >= 1 /\ positions[i-1] # Zero
LongHeld == i >= 1 /\ Pos(positions[i-1])
ShortHeld == i >= 1 /\ Neg(positions[i-1])

\* Row i touches the stop / the target of the position held at i - 1.
StopHit ==
    \/ LongHeld /\ RLe(row.low, stop_losses[i-1])
    \/ ShortHeld /\ RLe(stop_losses[i-1], row.high)

TargetHit ==
    \/ LongHeld /\ RLe(take_profits[i-1], row.high) /\ Pos(take_profits[i-1])
    \/ ShortHeld /\ RLe(row.low, take_profits[i-1]) /\ Pos(take_profits[i-1])

ExitTriggers == StopHit \/ TargetHit

\* The engine is flat when row i's signals are looked at.
FlatForEntry == i >= 1 /\ (positions[i-1] = Zero \/ ExitTriggers)

\* The ledger entries of the trades closed on row k.
ClosedAt(k) == { t \in 1..Len(trades_list) : trades_list[t].exit_bar = k }

SamePosition(k, m) ==
    /\ positions[k] = positions[m]
    /\ entry_prices[k] = entry_prices[m]
    /\ stop_losses[k] = stop_losses[m]
    /\ take_profits[k] = take_profits[m]

\* C1: on every processed row k >= 1 on which no trade closes (position
\* carried, position opened, or flat without a signal), equity[k] = equity[k-1].
C1_EquityChangesOnlyOnClose ==
    \A k \in 1..i : ClosedAt(k) = {} => equity[k] = equity[k-1]

\* C2: on a row on which an exit triggers, exactly one trade is appended, it
\* closes the position held on the row before, and the row's equity is the
\* previous row's equity plus that trade's pnl.
C2_ExitBooksPnl ==
    ExitTriggers =>
        /\ Cardinality(ClosedAt(i)) = 1
        /\ Len(trades_list) \in ClosedAt(i)
        /\ Last(trades_list).entry_price = entry_prices[i-1]
        /\ Last(trades_list).direction = (IF LongHeld THEN "long" ELSE "short")
        /\ equity[i] = RAdd(equity[i-1], Last(trades_list).pnl)

\* C3: when a row touches both the stop and the target of the open position
\* (long: low <= stop_loss and high >= take_profit; short: high >= stop_loss
\* and low <= take_profit), the trade closed on it has exit_reason stop_loss.
C3_StopWinsTie ==
    (\/ LongHeld /\ RLe(row.low, stop_losses[i-1]) /\ RLe(take_profits[i-1], row.high)
     \/ ShortHeld /\ RLe(stop_losses[i-1], row.high) /\ RLe(row.low, take_profits[i-1]))
    => /\ Len(trades_list) \in ClosedAt(i)
       /\ Last(trades_list).exit_reason = "stop_loss"

\* A long position whose stop and target are both touched by the row.
C3_Witness ==
    /\ LongHeld
    /\ RLe(row.low, stop_losses[i-1])
    /\ RLe(take_profits[i-1], row.high) /\ Pos(take_profits[i-1])
    /\ ClosedAt(i) # {}

\* C4: while a position is open and neither its stop nor its target triggers
\* on a row, no trade closes on that row and the position is carried into it
\* with the same quantity, entry_price, stop_loss and take_profit, whatever
\* the row's signal flags.
C4_CarryUnchanged ==
    /\ (Held /\ ~ExitTriggers) => (ClosedAt(i) = {} /\ SamePosition(i, i - 1))
    /\ \A k \in 1..i :
         (positions[k-1] # Zero /\ ClosedAt(k) = {}) => SamePosition(k, k - 1)

\* A position carried over a row that has an entry signal set.
C4_Witness ==
    /\ Held /\ ~ExitTriggers
    /\ row.signal_long \/ row.signal_short
    /\ positions[i] # Zero

Slip == config.slippage_pips

LongLevels ==
    /\ entry_prices[i] = RAdd(row.high, Slip)
    /\ stop_losses[i] = RSub(row.low, Slip)
    /\ take_profits[i] =
         RAdd(entry_prices[i], RMul(<<3, 2>>, RSub(entry_prices[i], stop_losses[i])))

ShortLevels ==
    /\ entry_prices[i] = RSub(row.low, Slip)
    /\ stop_losses[i] = RAdd(row.high, Slip)
    /\ take_profits[i] =
         RSub(entry_prices[i], RMul(<<3, 2>>, RSub(stop_losses[i], entry_prices[i])))

C6_ExitAtClose ==
    \A t \in ClosedAt(i) :
        /\ trades_list[t].exit_price = row.close
        /\ trades_list[t].exit_reason \in {"stop_loss", "take_profit"}
        /\ trades_list[t].direction = "short" => Neg(positions[i-1])
        /\ trades_list[t].pnl =
              RSub(RMul(RSub(trades_list[t].exit_price, trades_list[t].entry_price),
                        positions[i-1]),
                   RMul(R(2), config.commission_per_trade))

\* A short closed at its target.
C6_Witness ==
    /\ ShortHeld /\ TargetHit /\ ~StopHit
    /\ ClosedAt(i) # {}
    /\ Last(trades_list).exit_reason = "take_profit"

\* C7: flat at row i with both signal_long and signal_short set, the engine
\* opens a long (the long's levels, a positive quantity) and no short.
C7_LongPrecedence ==
    (FlatForEntry /\ row.signal_long /\ row.signal_short)
        => (Pos(positions[i]) /\ LongLevels /\ ~ShortLevels)

C7_Witness == FlatForEntry /\ row.signal_long /\ row.signal_short /\ positions[i] # Zero

\* The account equity when row i's entry is sized: initial_capital plus the pnl
\* of every trade closed so far.
EquityBeforeTrade == RAdd(config.initial_capital, SumPnl(trades_list))

\* C8: a position opened on row i has quantity fixed_qty in fixed mode and, in
\* the risk based mode, max((E * risk_per_trade_pct / 100) / |entry_price -
\* stop_loss|, 0.01) with E the initial capital plus the pnl of every trade
\* already closed.
C8_Sizing ==
    (FlatForEntry /\ (row.signal_long \/ row.signal_short)) =>
        RAbs(positions[i]) =
            IF config.position_sizing = "fixed" THEN config.fixed_qty
            ELSE RMax(RDiv(RMul(EquityBeforeTrade,
                                RDiv(config.risk_per_trade_pct, R(100))),
                           RAbs(RSub(entry_prices[i], stop_losses[i]))),
                      <<1, 100>>)

\* A position is long or short by its levels: the stop below the entry and the
\* target above it, or the reverse.
LongSide(k) == RLt(stop_losses[k], entry_prices[k]) /\ RLt(entry_prices[k], take_profits[k])
ShortSide(k) == RLt(take_profits[k], entry_prices[k]) /\ RLt(entry_prices[k], stop_losses[k])

\* C9: the sign of the quantity matches the side. A long entry leaves a
\* strictly positive quantity and a short entry a strictly negative one, flat
\* is quantity 0, every recorded position with a positive quantity has a
\* long's levels and every one with a negative quantity a short's, and the
\* exit check closes a long by the long rule (low <= stop_loss, or high >=
\* take_profit) as a "long" trade and a short by the mirror rule as a "short".
C9_SignMatchesSide ==
    /\ \A k \in 0..i :
         k < n => /\ Pos(positions[k]) => LongSide(k)
                  /\ Neg(positions[k]) => ShortSide(k)
    /\ FlatForEntry =>
         /\ row.signal_long => Pos(positions[i])
         /\ (row.signal_short /\ ~row.signal_long) => Neg(positions[i])
         /\ (~row.signal_short /\ ~row.signal_long) => positions[i] = Zero
    /\ (i >= 1 /\ LongSide(i - 1)) =>
         /\ ClosedAt(i) # {} <=>
              \/ RLe(row.low, stop_losses[i-1])
              \/ RLe(take_profits[i-1], row.high)
         /\ \A t \in ClosedAt(i) : trades_list[t].direction = "long"
    /\ (i >= 1 /\ ShortSide(i - 1)) =>
         /\ ClosedAt(i) # {} <=>
              \/ RLe(stop_losses[i-1], row.high)
              \/ RLe(row.low, take_profits[i-1]) /\ Pos(take_profits[i-1])
         /\ \A t \in ClosedAt(i) : trades_list[t].direction = "short"

\* A short entry has been made and the position is closed by the short rule.
C9_Witness ==
    /\ i >= 2
    /\ ShortSide(i - 1) /\ Neg(positions[i-1])
    /\ ClosedAt(i) # {}
    /\ Last(trades_list).direction = "short"

\* The keys of the metrics of a run with one trade.
KeysWithTrades ==
    DOMAIN _calculate_metrics(
               [k \in 0..1 |-> R(100)],
               <<[entry_bar |-> 0, exit_bar |-> 1, direction |-> "long",
                  entry_price |-> R(9), exit_price |-> R(4), pnl |-> R(-8),
                  exit_reason |-> "stop_loss"]>>,
               2)

\* C10: a run over rows whose signal_long and signal_short are all false
\* closes no trade, and its metrics have the keys of the metrics of a run with
\* trades, every value 0 (total_trades included).
C10_QuietRunZeroMetrics ==
    /\ trades_list = <<>>
    /\ pc = "done" =>
         /\ DOMAIN metrics = KeysWithTrades
         /\ \A k \in DOMAIN metrics : metrics[k] = Zero
         /\ metrics["total_trades"] = Zero

\* A run over three signal-free rows has returned.
C10_Witness == pc = "done" /\ n >= 3 /\ i = n - 1

\* The equity curve never falls below its running maximum: it never decreases
\* from an earlier bar to a later one.
NeverBelowRunningMax ==
    \A k \in 0..(n - 1) : \A m \in 0..k : RLe(equity[m], equity[k])

\* C11: the max_drawdown of a returned run is <= 0, and it is 0 only if the
\* equity curve never falls below its running maximum.
C11_MaxDrawdown ==
    pc = "done" =>
        /\ RLe(metrics.max_drawdown, Zero)
        /\ metrics.max_drawdown = Zero => NeverBelowRunningMax

\* A run with trades whose curve never fell, and one whose curve did.
C11_Witness ==
    /\ pc = "done"
    /\ trades_list # <<>>
    /\ metrics.max_drawdown = Zero
    /\ RLt(equity[0], equity[n - 1])

Winners == { t \in 1..Len(trades_list) : Pos(trades_list[t].pnl) }
Losers == { t \in 1..Len(trades_list) : Neg(trades_list[t].pnl) }

\* The sum of the pnl of the ledger entries S.
RECURSIVE PnlOver(_)
PnlOver(S) ==
    IF S = {} THEN Zero
    ELSE LET t == CHOOSE x \in S : TRUE
         IN  RAdd(trades_list[t].pnl, PnlOver(S \ {t}))

\* C12: profit_factor is 0 when the ledger has no losing trade or the losing
\* pnl sums to zero; otherwise it is |sum of winning pnl / sum of losing pnl|,
\* which is not negative.
C12_ProfitFactor ==
    pc = "done" =>
        IF Losers = {} \/ PnlOver(Losers) = Zero
        THEN metrics.profit_factor = Zero
        ELSE /\ metrics.profit_factor = RAbs(RDiv(PnlOver(Winners), PnlOver(Losers)))
             /\ RLe(Zero, metrics.profit_factor)

\* A returned run with a winning and a losing trade.
C12_Witness ==
    /\ pc = "done"
    /\ Winners # {} /\ Losers # {}
    /\ Pos(metrics.profit_factor)

\* C13: run never returns a BacktestResult for an empty frame.
C13_EmptyFrameFails == n = 0 => pc # "done"

\* ------------------------------------------------- optimizer properties
\* The position in the job list of the job that produced result r.
JobOf(r) == CHOOSE j \in DOMAIN jobs : jobs[j].params = r.parameters

\* C14: the list optimize returns is sorted by non-increasing rank_score, and
\* results of equal score keep the order of their jobs in the grid.
C14_RankedOrder ==
    opt_pc = "returned" =>
        \A a \in DOMAIN output : \A b \in DOMAIN output :
            a < b =>
                /\ RLe(output[b].rank_score, output[a].rank_score)
                /\ output[a].rank_score = output[b].rank_score
                       => JobOf(output[a]) < JobOf(output[b])

\* A returned list with a tie, and with a result ranked ahead of the result
\* of an earlier job.
C14_Witness ==
    /\ opt_pc = "returned"
    /\ \E a \in DOMAIN output : \E b \in DOMAIN output :
          a < b /\ output[a].rank_score = output[b].rank_score
    /\ \E a \in DOMAIN output : \E b \in DOMAIN output :
          a < b /\ JobOf(output[b]) < JobOf(output[a])

\* What optimize returns when the jobs are run one after the other in job order.
SerialOutput ==
    LET rs == [j \in DOMAIN jobs |-> _run_single_backtest_worker(jobs[j])]
    IN  IF Len(SelectSeq(rs, is_valid)) = 0 THEN <<>>
        ELSE _rank_results(SelectSeq(rs, is_valid))

\* C15: whatever the pool size and the order in which the jobs return,
\* optimize returns the list the serial execution (n_jobs == 1) returns.
C15_SameAsSerial == opt_pc = "returned" => output = SerialOutput

\* A pool run that returned two results of equal score.
C15_Witness ==
    /\ opt_pc = "returned"
    /\ n_jobs > 1
    /\ Len(output) >= 2
    /\ output[1].rank_score = output[2].rank_score

\* C16: the results are filtered and ranked only after every job of the call
\* has returned.
C16_Barrier ==
    /\ opt_pc = "map" => output = <<>>
    /\ opt_pc = "returned" => \A j \in DOMAIN jobs : job_state[j] = "returned"

\* A pool call of several jobs that has returned.
C16_Witness ==
    /\ opt_pc = "returned"
    /\ n_jobs > 1
    /\ Len(jobs) > n_jobs

\* The jobs whose body raised.
RaisingJobs == { j \in DOMAIN jobs : worker_body(jobs[j]) = Raises }

\* The jobs that did not raise and whose run made at least one trade.
TradedJobs ==
    { j \in DOMAIN jobs \ RaisingJobs :
        RLt(Zero, run_outcome[jobs[j].params]["total_trades"]) }

\* C17: whichever jobs raise, optimize does not raise, and it returns exactly
\* the results of the jobs that did not raise and made a trade (the empty list
\* when there is none).
C17_FailureIsolation ==
    /\ opt_pc # "raised"
    /\ opt_pc = "returned" =>
          /\ Len(output) = Cardinality(TradedJobs)
          /\ \A j \in TradedJobs : \E k \in DOMAIN output :
                /\ output[k].parameters = jobs[j].params
                /\ output[k].metrics = run_outcome[jobs[j].params]

\* A call of a registered pattern in which a job raised and another made trades.
C17_Witness ==
    /\ opt_pc = "returned"
    /\ get_component("entry_pattern", pattern_name) # None
    /\ RaisingJobs # {}
    /\ TradedJobs # {}

\* C18: optimize does not return normally when the pattern name or a filter
\* name is not registered.
C18_UnknownNameSurfaces ==
    opt_pc = "returned" =>
        /\ get_component("entry_pattern", pattern_name) # None
        /\ applied_filters(filter_configs) = filter_configs

\* C19: every result optimize returns has metrics.total_trades > 0.
C19_OnlyTradedResults ==
    opt_pc = "returned" =>
        \A k \in DOMAIN output : RLt(Zero, output[k].metrics["total_trades"])

\* A call that returned results although one of its runs made no trade.
C19_Witness ==
    /\ opt_pc = "returned"
    /\ output # <<>>
    /\ \E j \in DOMAIN jobs : worker_body(jobs[j]) # Raises
                              /\ run_outcome[jobs[j].params] = _empty_metrics

\* x brought into [lo, hi].
Clamp(x, lo, hi) == IF RLt(x, lo) THEN lo ELSE IF RLt(hi, x) THEN hi ELSE x

C21_EmptyRangesOneJob ==
    (opt_pc # "idle" /\ parameter_ranges = <<>>) =>
        /\ Len(jobs) = 1
        /\ DOMAIN jobs[1].params = {}
        /\ opt_pc = "returned" => Returned(job_state) = {1}

\* A call with empty ranges that returned the result of its one job.
C21_Witness ==
    /\ opt_pc = "returned"
    /\ parameter_ranges = <<>>
    /\ Len(output) = 1
    /\ DOMAIN output[1].parameters = {}

\* The number of value lists of the grid that follow list x, multiplied out.
RECURSIVE Stride(_)
Stride(x) ==
    IF x >= Len(parameter_ranges) THEN 1
    ELSE Len(parameter_ranges[x + 1].values) * Stride(x + 1)

\* C22: for non-empty parameter_ranges the jobs are the elements of the
\* Cartesian product of the value lists, one job each, in lexicographic order
\* over the parameter order of the input (the last parameter varies fastest);
\* the number of jobs is the product of the list sizes.
C22_ProductOrder ==
    (opt_pc # "idle" /\ parameter_ranges # <<>>) =>
        /\ Len(jobs) = Len(parameter_ranges[1].values) * Stride(1)
        /\ \A k \in DOMAIN jobs : \A x \in DOMAIN parameter_ranges :
              /\ DOMAIN jobs[k].params =
                     { parameter_ranges[y].name : y \in DOMAIN parameter_ranges }
              /\ jobs[k].params[parameter_ranges[x].name] =
                     parameter_ranges[x].values[
                         (((k - 1) \div Stride(x)) % Len(parameter_ranges[x].values)) + 1]

\* A call over two parameters with two values each whose jobs have all returned.
C22_Witness ==
    /\ opt_pc = "returned"
    /\ Len(parameter_ranges) = 2
    /\ Len(jobs) = 4
    /\ jobs[2].params["p2"] # jobs[1].params["p2"]

\* ------------------------------------------------ engine properties, II
\* A position is opened on row k: the row ends with a position and it began
\* flat or its position was closed on it.
OpenedAt(k) == positions[k] # Zero /\ (positions[k-1] = Zero \/ ClosedAt(k) # {})

\* C26: every trade of the ledger has exit_bar > entry_bar, and the position
\* it closes was already held on the row before its exit row: no position is
\* closed on the row on which it was opened.
C26_ExitAfterEntry ==
    \A t \in 1..Len(trades_list) :
        /\ trades_list[t].exit_bar > trades_list[t].entry_bar
        /\ trades_list[t].entry_bar >= 0
        /\ positions[trades_list[t].exit_bar - 1] # Zero
        /\ trades_list[t].entry_price = entry_prices[trades_list[t].exit_bar - 1]

\* A trade that closes a position held over more than one row.
C26_Witness ==
    /\ trades_list # <<>>
    /\ Last(trades_list).exit_bar >= 3
    /\ SamePosition(Last(trades_list).exit_bar - 1, Last(trades_list).exit_bar - 2)

\* C27: on a row i on which an exit triggers and signal_long is set (or,
\* failing that, signal_short), a new position is opened on row i from row i's
\* own high and low, and that position is not looked at for an exit before
\* row i + 1: row i closes the old position only, and row i + 1 either carries
\* the new one or closes it.
C27_ReentryOnExitBar ==
    /\ (Held /\ ExitTriggers /\ row.signal_long)
           => (Pos(positions[i]) /\ LongLevels /\ Cardinality(ClosedAt(i)) = 1)
    /\ (Held /\ ExitTriggers /\ row.signal_short /\ ~row.signal_long)
           => (Neg(positions[i]) /\ ShortLevels /\ Cardinality(ClosedAt(i)) = 1)
    /\ \A k \in 1..(i - 1) :
          (ClosedAt(k) # {} /\ positions[k] # Zero) =>
              \/ ClosedAt(k + 1) = {} /\ SamePosition(k + 1, k)
              \/ \E t \in ClosedAt(k + 1) :
                    /\ trades_list[t].entry_price = entry_prices[k]
                    /\ trades_list[t].direction =
                           (IF Pos(positions[k]) THEN "long" ELSE "short")

\* A position opened on the row that closed the one before it, and closed on
\* the next row.
C27_Witness ==
    /\ i >= 3
    /\ ClosedAt(i - 1) # {} /\ positions[i-1] # Zero
    /\ ClosedAt(i) # {}

\* The processed rows on which a position was opened.
OpeningRows == { k \in 1..i : OpenedAt(k) }

\* C28: the ledger never holds more trades than there are rows with an entry
\* signal set: a position is opened on a row only if the row has signal_long
\* or signal_short set, and there are at most as many trades as rows on which
\* a position was opened.
C28_TradesBoundedBySignals ==
    /\ (i >= 1 /\ OpenedAt(i)) => (row.signal_long \/ row.signal_short)
    /\ Len(trades_list) <= Cardinality(OpeningRows)

\* Two trades from two rows with a signal.
C28_Witness ==
    /\ Len(trades_list) = 2
    /\ Cardinality(OpeningRows) = 2

\* C30: at the end of a run with at least one trade, final_equity is
\* initial_capital plus total_pnl, and roi is total_pnl / initial_capital * 100.
C30_AccountingIdentity ==
    (pc = "done" /\ trades_list # <<>>) =>
        /\ metrics.final_equity = RAdd(config.initial_capital, metrics.total_pnl)
        /\ metrics.roi = RMul(RDiv(metrics.total_pnl, config.initial_capital), R(100))

\* ----------------------------------------------- engine properties, III
\* The row on which the position held at the end of row k was opened.
OpeningRow(k) == CHOOSE o \in 1..k :
    /\ OpenedAt(o)
    /\ \A x \in (o + 1)..k : ~OpenedAt(x)

\* C31: the entry_bar of every trade is the row on which the position it
\* closes was opened, also when the position was carried over rows in between.
C31_EntryBarIsOpeningRow ==
    \A t \in 1..Len(trades_list) :
        trades_list[t].entry_bar = OpeningRow(trades_list[t].exit_bar - 1)

\* A position is still open after the last row.
OpenAtEnd == pc = "done" /\ n >= 2 /\ positions[n-1] # Zero

C35_FlatOnFirstRow ==
    /\ n >= 1 => /\ positions[0] = Zero
                 /\ entry_prices[0] = Zero
                 /\ stop_losses[0] = Zero
                 /\ take_profits[0] = Zero
    /\ \A t \in 1..Len(trades_list) :
          /\ trades_list[t].entry_bar >= 1
          /\ trades_list[t].exit_bar >= 2

\* The earliest trade there can be: opened on row 1 and closed on row 2.
C35_Witness ==
    /\ trades_list # <<>>
    /\ trades_list[1].entry_bar = 1
    /\ trades_list[1].exit_bar = 2
    /\ positions[0] = Zero

\* The tracking arrays and the ledger an iteration on row r leaves.
AfterRow(r) == EntryBlock(config, r, i + 1, ExitBlock(config, r, i + 1, Tracking))

C24_PrivateCopies ==
    /\ frames[CallerFrame] = [columns |-> BaseColumns, written_by |-> {}]
    /\ \A j \in DOMAIN jobs :
          /\ jobs[j].df # CallerFrame
          /\ jobs[j].df \in DOMAIN frames
          /\ \A k \in DOMAIN jobs : k # j => jobs[k].df # jobs[j].df
    /\ \A f \in DOMAIN frames :
          /\ frames[f].written_by \subseteq ({f[1]} \ {0})
          /\ frames[f].columns # BaseColumns => f[1] \in DOMAIN jobs /\ f[2] >= 1

\* Two jobs have run and written signal and filter columns into their frames.
C24_Witness ==
    /\ opt_pc = "returned"
    /\ Len(jobs) >= 2
    /\ \E f \in DOMAIN frames : f[1] = 1 /\ "filter_ok" \in frames[f].columns
    /\ \E f \in DOMAIN frames : f[1] = 2 /\ "signal_long" \in frames[f].columns

\* -------------------------------------------------- DataManager properties
\* The requested provider, or the default one, followed by the fallbacks.
TryList ==
    [k \in 1..(Len(fallback_providers) + 1) |->
        IF k > 1 THEN fallback_providers[k - 1]
        ELSE IF provider = "None" THEN default_provider ELSE provider]

\* The fetch of provider p succeeds: p is registered and its fetch_data returns.
Succeeds(p) == p \in PROVIDERS /\ fetch_succeeds[p]

\* C29: fetch_data tries the requested (or default) provider and then the
\* fallback providers, in that order; it returns the data of the first provider
\* whose fetch succeeds and calls no later provider; it raises
\* DataNotFoundError if and only if every provider of the list fails.
C29_FirstSuccessWins ==
    /\ Len(tried) <= Len(TryList)
    /\ \A k \in DOMAIN tried : tried[k] = TryList[k]
    /\ fetch_pc = "returned" =>
          /\ tried # <<>>
          /\ fetched = Last(tried)
          /\ Succeeds(fetched)
          /\ \A k \in 1..(Len(tried) - 1) : ~Succeeds(tried[k])
    /\ fetch_pc = "raised" =>
          /\ tried = TryList
          /\ \A k \in DOMAIN TryList : ~Succeeds(TryList[k])
    /\ (\A k \in DOMAIN TryList : ~Succeeds(TryList[k])) => fetch_pc # "returned"
    /\ (\E k \in DOMAIN TryList : Succeeds(TryList[k])) => fetch_pc # "raised"

\* The second provider of three succeeded after the first failed; the third
\* was not called.
C29_Witness ==
    /\ fetch_pc = "returned"
    /\ Len(tried) = 2
    /\ Len(TryList) = 3
    /\ fetched # TryList[3]

\* ------------------------------------- generate_parameter_grid properties
\* The value list param_grid holds under the name of the k-th entry.
GridValues(k) ==
    param_grid[CHOOSE x \in DOMAIN param_grid : param_grid[x].name = ParamName(k)].values

HasGridValues(k) == \E x \in DOMAIN param_grid : param_grid[x].name = ParamName(k)

\* C25: for an int range (step >= 1) generate_parameter_grid returns the
\* ascending values min, min + step, min + 2 * step, ... that are <= max, max
\* itself included when the steps reach it; for a choice it returns the option
\* list as it is, in the same order.
C25_GridExpansion ==
    grid_pc = "returned" =>
        \A k \in DOMAIN param_spec :
            /\ (param_spec[k].type = "int" /\ RLe(R(1), param_spec[k].step)) =>
                  /\ HasGridValues(k)
                  /\ GridValues(k) # <<>>
                  /\ GridValues(k)[1] = param_spec[k].min
                  /\ \A x \in 1..(Len(GridValues(k)) - 1) :
                        GridValues(k)[x + 1] = RAdd(GridValues(k)[x], param_spec[k].step)
                  /\ RLe(Last(GridValues(k)), param_spec[k].max)
                  /\ RLt(param_spec[k].max, RAdd(Last(GridValues(k)), param_spec[k].step))
            /\ param_spec[k].type = "choice" =>
                  /\ HasGridValues(k)
                  /\ GridValues(k) = param_spec[k].options

\* An int range whose last value is max and a choice of three options.
C25_Witness ==
    /\ grid_pc = "returned"
    /\ Len(param_spec) = 2
    /\ param_spec[1].type = "int"
    /\ Len(GridValues(1)) >= 2
    /\ Last(GridValues(1)) = param_spec[1].max
    /\ param_spec[2].type = "choice"
    /\ Len(GridValues(2)) = 3

\* ------------------------------------------ multi-pattern properties
\* The result x of the k-th optimize call, with its pattern's name as tag.
TaggedAt(k, x) ==
    [pattern_results[k][x] EXCEPT !.parameters =
        [p \in DOMAIN @ \cup {"pattern"} |->
            IF p = "pattern" THEN pattern_configs[k].pattern_name ELSE @[p]]]

\* The places of the results the optimize calls returned.
ReturnedPlaces ==
    { kx \in (DOMAIN pattern_results) \X (1..MaxJobs) :
        kx[2] \in DOMAIN pattern_results[kx[1]] }

\* The composite score of a metrics dict: 0.3 roi, 0.3 profit factor, 0.4 drawdown.
CompositeOf(m) ==
    RAdd(RAdd(RMul(Clamp(RDiv(m["roi"], R(100)), R(-1), R(2)), <<3, 10>>),
              RMul(RMin(RDiv(m["profit_factor"], R(3)), R(1)), <<3, 10>>)),
         RMul(RMax(RSub(R(1), RDiv(RAbs(m["max_drawdown"]), R(100))), Zero), <<2, 5>>))

\* C23: what optimize_multi_pattern returns holds every result of every
\* pattern's optimize call, each as often as the calls returned it and each
\* with its pattern's name in parameters["pattern"], and nothing else; its
\* length is the sum of the calls' counts; every rank_score is the composite
\* score of the result's own metrics, and the list is sorted by it,
\* non-increasing.
C23_MultiPattern ==
    multi_pc = "returned" =>
      /\ Len(pattern_results) = Len(pattern_configs)
      /\ Len(all_results) = Cardinality(ReturnedPlaces)
      /\ \A kx \in ReturnedPlaces :
           Cardinality({ y \in DOMAIN all_results : all_results[y] = TaggedAt(kx[1], kx[2]) })
             = Cardinality({ ky \in ReturnedPlaces : TaggedAt(ky[1], ky[2]) = TaggedAt(kx[1], kx[2]) })
      /\ \A y \in DOMAIN all_results :
           all_results[y].rank_score = CompositeOf(all_results[y].metrics)
      /\ \A y \in 1..(Len(all_results) - 1) :
           RLe(all_results[y + 1].rank_score, all_results[y].rank_score)

C23_Witness ==
    /\ multi_pc = "returned"
    /\ Len(pattern_configs) = 2
    /\ pattern_configs[1].pattern_name # pattern_configs[2].pattern_name
    /\ Len(pattern_results[1]) >= 1
    /\ Len(pattern_results[2]) = 2
    /\ all_results[1].parameters["pattern"] = pattern_configs[2].pattern_name
    /\ all_results[2].parameters["pattern"] = pattern_configs[1].pattern_name

\* ------------------------------------------------ ranking properties, II
\* x lies in [0, 1].
InUnit(x) == RLe(Zero, x) /\ RLe(x, R(1))

\* C32: for every result optimize returns, the roi component, the profit
\* factor component and the drawdown component of its metrics lie in [0, 1],
\* and so does its rank_score.
C32_ComponentsInUnitRange ==
    opt_pc = "returned" =>
      \A k \in 1..Len(output) :
          /\ InUnit(roi_component(output[k].metrics))
          /\ InUnit(pf_component(output[k].metrics))
          /\ InUnit(dd_component(output[k].metrics))
          /\ InUnit(output[k].rank_score)

\* --------------------------------------------------- filter properties
\* The filter configs of the job whose filter is registered.
RegisteredFilters ==
    { k \in DOMAIN job_filters : get_component("filter", job_filters[k].name) # None }

\* C33: in the frame the worker hands to engine.run, signal_long or
\* signal_short is set on a bar only if the pattern set it there and the
\* filter_ok of every configured filter is true on that bar.
C33_FiltersConjunctive ==
    signals_pc = "run" =>
      \A r \in SignalRows :
        \A c \in {"signal_long", "signal_short"} :
            df_signals[c][r] =>
                /\ pattern_signals[c][r]
                /\ \A k \in RegisteredFilters : job_filters[k].filter_ok[r]

\* ---------------------------------------------- grid properties, II
\* C37: every while loop generate_parameter_grid enters for a float range
\* with min <= max comes to an end: each iteration moves current towards max,
\* whatever the step of the range.
C37_GridTerminates ==
    (grid_pc = "while" /\ RLe(param_spec[g_idx + 1].min, param_spec[g_idx + 1].max)) =>
        RLt(current, RAdd(current, param_spec[g_idx + 1].step))

\* ----------------------------------------- multi-pattern properties, II
\* The place (k, x) comes before the place (m, y) in the order in which the
\* optimize calls returned their results, or is that place.
NotAfter(kx, my) == kx[1] < my[1] \/ (kx[1] = my[1] /\ kx[2] <= my[2])

\* The position in the ranked list of the result returned at place kx: behind
\* every result of greater score and every result of the same score that was
\* returned before it.
RankedPosition(kx) ==
    Cardinality({ my \in ReturnedPlaces :
                    RLt(TaggedAt(kx[1], kx[2]).rank_score, TaggedAt(my[1], my[2]).rank_score) })
    + Cardinality({ my \in ReturnedPlaces :
                    /\ TaggedAt(my[1], my[2]).rank_score = TaggedAt(kx[1], kx[2]).rank_score
                    /\ NotAfter(my, kx) })

\* C38: optimize_multi_pattern returns the results in the order of a stable
\* sort of the calls' outputs put one after the other: results of one call
\* keep the order that call returned them in, and of results of equal score
\* the one of the earlier entry of pattern_configs comes first.
C38_StableAcrossPatterns ==
    multi_pc = "returned" =>
      /\ \A kx \in ReturnedPlaces :
            all_results[RankedPosition(kx)] = TaggedAt(kx[1], kx[2])
      /\ \A kx \in ReturnedPlaces, my \in ReturnedPlaces :
            (kx[1] = my[1] /\ kx[2] < my[2]) => RankedPosition(kx) < RankedPosition(my)
      /\ \A kx \in ReturnedPlaces, my \in ReturnedPlaces :
            (kx[1] < my[1] /\ TaggedAt(kx[1], kx[2]).rank_score = TaggedAt(my[1], my[2]).rank_score)
                => RankedPosition(kx) < RankedPosition(my)

\* Two results of the first pattern with a result of the second pattern
\* between them, of the same score as the first.
C38_Witness ==
    /\ multi_pc = "returned"
    /\ Len(pattern_configs) = 2
    /\ pattern_configs[1].pattern_name # pattern_configs[2].pattern_name
    /\ Len(pattern_results[1]) = 2
    /\ Len(pattern_results[2]) = 1
    /\ all_results[1].rank_score = all_results[2].rank_score
    /\ all_results[3].rank_score # all_results[2].rank_score
    /\ all_results[1].parameters["pattern"] = pattern_configs[1].pattern_name
    /\ all_results[2].parameters["pattern"] = pattern_configs[2].pattern_name
    /\ all_results[3].parameters["pattern"] = pattern_configs[1].pattern_name

====
